---- MODULE Spec2Model ----
(***************************************************************************)
(* Batched transactional execution engine of sqlx_utils:                   *)
(*   - BatchOperator::{execute_query, execute_batch}                       *)
(*                                             (src/src/utils/batch.rs)    *)
(*   - SaveRepository::save_batch, the chunk-worker of execute_batch       *)
(*                              (src/src/traits/repository/save.rs)        *)
(*   - TransactionRepository::{with_transaction, transaction_sequential,   *)
(*     transaction_concurrent, try_transaction}                            *)
(*                      (src/src/traits/repository/transactions/mod.rs)    *)
(*                                                                         *)
(* One call of one operation is modelled per behaviour.  Every await of    *)
(* the source (begin, the query of one item, one action, commit,           *)
(* rollback) is one step; the store decides at that step whether the       *)
(* awaited operation succeeds or fails.                                    *)
(***************************************************************************)
EXTENDS Integers, Sequences, FiniteSets, TLC

\* ------------------------------------------------------------------ bounds
MaxL == 5
MaxN == 3
MaxActions == 3
MaxModels == 3
MaxNodes == 5

\* --------------------------------------------------------------- variables
VARIABLES
    op,        \* the entry point that was called
    N,         \* const generic N of BatchOperator<T, N>
    input,     \* the items of `iter`, in iteration order
    nAct,      \* number of actions handed to a transaction strategy
    hasId,     \* hasId[m]: model m has an identity (`get_id().is_some()`)
    q,         \* the frame of every execute_query call (pc, items, read, buf, ..)
    eb,        \* execute_batch: the frame of the call (pc, read, buf, res)
    workers,   \* execute_batch: `futures`, one chunk-worker per entry
    txs,       \* every transaction handle begun on the pool, in begin order
    tpc,       \* transaction strategies: position of the engine
    idx,       \* sequential strategies: number of actions taken from `actions`
    ret,       \* with_transaction: the callback's result
    results,   \* `results` vector of a strategy
    errors,    \* `errors` vector of try_transaction / error held by the engine
    act,       \* transaction_concurrent: state of every action future
    leaked,    \* transaction_concurrent: actions that kept a clone of the Arc
    mode,      \* transaction_concurrent: how the actions use the mutex
    lock,      \* transaction_concurrent: action holding the MutexGuard (0: free)
    single,    \* save / delete_by_filter: the frame of the call (pc, stmts, ..)
    pe,        \* partition_execute: the frame of the call (pc, buf1, buf2, futures)
    result,    \* value returned by a transaction strategy
    fl,        \* the filter argument and what apply_filter pushed to the builder
    calls,     \* history: indices of the actions/callbacks invoked, in order
    produced   \* history: every error produced during the call, in order

vars == <<op, N, input, nAct, hasId, q, eb, workers, txs, tpc, idx, ret, results,
          errors, act, leaked, mode, lock, single, pe, result, fl,
          calls, produced>>

batchVars == <<N, input, hasId, q, eb, workers, pe, fl>>
lockVars == <<mode, lock>>
txVars == <<nAct, tpc, idx, ret, results, errors, act, leaked, mode, lock, result,
            calls>>

\* ----------------------------------------------------------------- values
Ops == {"execute_query", "save_batch", "with_transaction",
        "transaction_sequential", "transaction_concurrent", "try_transaction"}

Strategies == Ops \ {"execute_query", "save_batch"}

\* `pub(crate) const DEFAULT_BATCH_SIZE: usize = 256;`
DEFAULT_BATCH_SIZE_Halved == 2 * 64
DEFAULT_BATCH_SIZE == 256

\* Entry points that fix the batch size to DEFAULT_BATCH_SIZE and hand their
\* input to the batched variant.
ManyOps == {"insert_many", "update_many", "delete_many_by_id", "save_all"}

\* Entry points that run one statement as the callback of with_transaction.
InTxOps == {"save_in_transaction", "insert_in_transaction",
            "update_in_transaction", "delete_by_id_in_transaction"}

\* Entry points that run delete_by_filter_with_executor as the callback of
\* with_transaction.
FilterTxOps == {"delete_by_filter_in_transaction", "delete_by_values_in_transaction"}

\* Entry points whose body is with_transaction.
WtOps == {"with_transaction"} \cup InTxOps \cup FilterTxOps

\* Entry points that issue a single statement on an executor.
SaveOps == {"save", "save_ref", "save_with_executor", "save_ref_with_executor"}
DeleteOps == {"delete_by_filter", "delete_by_filter_with_executor"}

\* Result<T, E>.  `errs` holds the single error of Result<_, E>, or the
\* Vec<E> of try_transaction.
NoResult == [tag |-> "None", val |-> <<>>, errs |-> <<>>]
Ok(v) == [tag |-> "Ok", val |-> v, errs |-> <<>>]
Err(es) == [tag |-> "Err", val |-> <<>>, errs |-> es]

\* An error value: where it was produced (`src`) and by which item, action
\* or transaction (`at`).
Error(src, at) == [src |-> src, at |-> at]

\* A freshly begun sqlx::Transaction.  `owner` is the frame that began it,
\* `log` are the statements executed through the handle, `commit` and
\* `rollback` count the explicit calls.
NewTx(p) == [state |-> "Open", owner |-> p, log |-> <<>>,
             commit |-> 0, rollback |-> 0]

\* Statement executed through a handle.
Executed(tx, x) == [tx EXCEPT !.log = Append(@, x)]

\* tx.commit().await returned Ok.
Committed(tx) == [tx EXCEPT !.state = "Committed", !.commit = @ + 1]

\* tx.commit().await returned Err: the handle is consumed, nothing is committed.
CommitFailed(tx) == [tx EXCEPT !.state = "RolledBack", !.commit = @ + 1]

\* The error path returns without calling rollback: the handle is only dropped.
RolledBack_NotCalled(tx) == [tx EXCEPT !.state = "RolledBack"]

\* tx.rollback().await (the handle is consumed whether it returns Ok or Err).
RolledBack(tx) == [tx EXCEPT !.state = "RolledBack", !.rollback = @ + 1]

\* The work done so far is committed when the handle goes out of scope.
Dropped_Commits(tx) == [tx EXCEPT !.state = "Committed"]

\* The handle goes out of scope while open: sqlx rolls it back on drop.
Dropped(tx) == [tx EXCEPT !.state = "RolledBack"]

\* ------------------------------------------------- BatchOperator (batch.rs)
\* Frame id of the execute_query call made by the entry point itself.
Main == 0

\* Frame ids of the update_batch / insert_batch calls of chunk-worker w.
UpdFrame(w) == 2 * w - 1
InsFrame(w) == 2 * w

\* Frame of an execute_query call over `items` before its first step:
\* `let mut buf = Self::new()`.
NewFrame(items) == [pc |-> "loop", items |-> items, read |-> 0, buf |-> <<>>,
                    site |-> "none", cur |-> 0, res |-> NoResult]

IdleFrame == [NewFrame(<<>>) EXCEPT !.pc = "idle"]

\* The early return on an empty buffer is missing: a transaction is begun
\* for every call.
EnterInternal_NoEmptyCheck(f, site) == [f EXCEPT !.pc = "begin", !.site = site]

\* Entry of execute_query_internal(&mut buf.0, ..) called from `site`:
\* `if items.is_empty() { return Ok(()) }`, else on to pool.begin().
EnterInternal(f, site) ==
    IF f.buf = <<>>
      THEN IF site = "final"
             THEN [f EXCEPT !.pc = "done", !.res = Ok(<<>>)]
             ELSE [f EXCEPT !.pc = "loop"]
      ELSE [f EXCEPT !.pc = "begin", !.site = site]

\* Off by one: the buffer is flushed one push too late.
ShouldFlush_Late(buf) == Len(buf) = N + 1

\* `>=` in place of `==`: the same for N >= 1, a flush after every push for
\* N = 0.
ShouldFlush_AtLeast(buf) == Len(buf) >= N

\* `if buf.len() == N` after the push.
ShouldFlush(buf) == Len(buf) = N

\* The error of a flush inside the loop is discarded (`?` missing at the call
\* site): the loop goes on with the next item.
Propagate_Swallow(f, e) ==
    IF f.site = "loop"
      THEN [f EXCEPT !.buf = <<>>, !.pc = "loop"]
      ELSE [f EXCEPT !.buf = <<>>, !.pc = "done", !.res = Err(<<e>>)]

\* An awaited store operation of execute_query_internal returned Err(e): the
\* `?` returns it from execute_query_internal (dropping the drain, which
\* empties the buffer) and the `?` at the call site returns it from
\* execute_query.
Propagate(f, e) == [f EXCEPT !.buf = <<>>, !.pc = "done", !.res = Err(<<e>>)]

\* A failure undoes the transactions that were committed before it.
DropOpen_UndoesCommitted(t) == [k \in DOMAIN t |-> Dropped(t[k])]

\* Every handle that is still open goes out of scope.
DropOpen(t) == [k \in DOMAIN t |-> IF t[k].state = "Open" THEN Dropped(t[k])
                                                         ELSE t[k]]

\* The futures that are not ready are kept, not dropped, when one fails.
Cancelled_KeepsPending(qq, p) == qq

\* Frame p returned Err: inside a chunk-worker, try_join! and try_join_all
\* return at once and drop every other future that is not ready.
Cancelled(qq, p) ==
    [r \in DOMAIN qq |->
        IF r # p /\ r # Main /\ qq[r].pc # "done"
          THEN [qq[r] EXCEPT !.pc = "dropped"]
          ELSE qq[r]]

\* An awaited store operation of frame p returned Err(e); `t` are the
\* transactions after that operation.  The error travels up through every
\* `?`: out of execute_query and, for a frame of a chunk-worker, out of the
\* worker and of execute_batch.
Fails(p, e, t) ==
    /\ q' = Cancelled([q EXCEPT ![p] = Propagate(@, e)], p)
    /\ txs' = DropOpen(t)
    /\ eb' = IF p = Main THEN eb
                         ELSE [eb EXCEPT !.pc = "done", !.res = Err(<<e>>)]
    /\ produced' = Append(produced, e)

\* `for item in iter { buf.push(item); if buf.len() == N { internal } }`
Pull(p) ==
    /\ q[p].pc = "loop"
    /\ q[p].read < Len(q[p].items)
    /\ LET f == [q[p] EXCEPT !.read = @ + 1,
                             !.buf = Append(@, q[p].items[q[p].read + 1])]
       IN q' = [q EXCEPT ![p] = IF ShouldFlush(f.buf) THEN EnterInternal(f, "loop")
                                                      ELSE f]
    /\ UNCHANGED <<op, N, input, hasId, eb, workers, txs, produced>>
    /\ UNCHANGED txVars
    /\ UNCHANGED single
    /\ UNCHANGED pe
    /\ UNCHANGED fl

\* The iterator is exhausted: the trailing execute_query_internal call.
Exhausted(p) ==
    /\ q[p].pc = "loop"
    /\ q[p].read = Len(q[p].items)
    /\ q' = [q EXCEPT ![p] = EnterInternal(@, "final")]
    /\ UNCHANGED <<op, N, input, hasId, eb, workers, txs, produced>>
    /\ UNCHANGED txVars
    /\ UNCHANGED single
    /\ UNCHANGED pe
    /\ UNCHANGED fl

\* `let mut tx = pool.begin().await?;`
BeginBatch(p) ==
    /\ q[p].pc = "begin"
    /\ \E ok \in BOOLEAN :
         IF ok
           THEN /\ txs' = Append(txs, NewTx(p))
                /\ q' = [q EXCEPT ![p].pc = "exec", ![p].cur = Len(txs) + 1]
                /\ UNCHANGED <<produced, eb>>
           ELSE Fails(p, Error("begin", Len(txs) + 1), txs)
    /\ UNCHANGED <<op, N, input, hasId, workers>>
    /\ UNCHANGED txVars
    /\ UNCHANGED single
    /\ UNCHANGED pe
    /\ UNCHANGED fl

\* `for item in items.drain(..) { query(&item).execute(&mut *tx).await?; }`
\* On Err the drain and the handle are dropped.
ExecItem(p) ==
    /\ q[p].pc = "exec"
    /\ q[p].buf # <<>>
    /\ LET item == Head(q[p].buf)
           c == q[p].cur
       IN \E ok \in BOOLEAN :
            IF ok
              THEN /\ txs' = [txs EXCEPT ![c] = Executed(@, item)]
                   /\ q' = [q EXCEPT ![p].buf = Tail(@),
                                     ![p].pc = IF Tail(q[p].buf) = <<>>
                                                 THEN "commit" ELSE "exec"]
                   /\ UNCHANGED <<produced, eb>>
              ELSE Fails(p, Error("query", item), txs)
    /\ UNCHANGED <<op, N, input, hasId, workers>>
    /\ UNCHANGED txVars
    /\ UNCHANGED single
    /\ UNCHANGED pe
    /\ UNCHANGED fl

\* The commit is started but not awaited: the call site goes on while the
\* transaction is still open.
CommitBatch_NotAwaited(p) ==
    /\ q[p].pc = "commit"
    /\ q' = [q EXCEPT ![p] =
               IF q[p].site = "final"
                 THEN [@ EXCEPT !.pc = "done", !.res = Ok(<<>>)]
                 ELSE [@ EXCEPT !.pc = "loop"]]
    /\ UNCHANGED <<op, N, input, hasId, workers, txs, produced, eb>>
    /\ UNCHANGED txVars
    /\ UNCHANGED single
    /\ UNCHANGED pe
    /\ UNCHANGED fl

\* `tx.commit().await?; Ok(())`, then back to the call site.
CommitBatch(p) ==
    /\ q[p].pc = "commit"
    /\ LET c == q[p].cur
       IN \E ok \in BOOLEAN :
            IF ok
              THEN /\ txs' = [txs EXCEPT ![c] = Committed(@)]
                   /\ q' = [q EXCEPT ![p] =
                              IF q[p].site = "final"
                                THEN [@ EXCEPT !.pc = "done", !.res = Ok(<<>>)]
                                ELSE [@ EXCEPT !.pc = "loop"]]
                   /\ UNCHANGED <<produced, eb>>
              ELSE Fails(p, Error("commit", c), [txs EXCEPT ![c] = CommitFailed(@)])
    /\ UNCHANGED <<op, N, input, hasId, workers>>
    /\ UNCHANGED txVars
    /\ UNCHANGED single
    /\ UNCHANGED pe
    /\ UNCHANGED fl

\* ---- execute_batch, with the chunk-worker of save_batch (save.rs)
\* `futures.push(worker(buf.drain(..).collect()))`: the future of the worker
\* is created, not polled.
NewWorker(chunk) == [chunk |-> chunk, state |-> "created"]

\* Off by one: a chunk is handed to the worker one push too late.
ShouldDispatch_Late(buf) == Len(buf) = N + 1

\* `if buf.len() == N` of execute_batch.
ShouldDispatch(buf) == Len(buf) = N

\* `for item in iter { buf.push(item); if buf.len() == N { futures.push(..) } }`
EbPull ==
    /\ eb.pc = "loop"
    /\ eb.read < Len(input)
    /\ LET b == Append(eb.buf, input[eb.read + 1])
       IN IF ShouldDispatch(b)
            THEN /\ workers' = Append(workers, NewWorker(b))
                 /\ eb' = [eb EXCEPT !.read = @ + 1, !.buf = <<>>]
            ELSE /\ eb' = [eb EXCEPT !.read = @ + 1, !.buf = b]
                 /\ UNCHANGED workers
    /\ UNCHANGED <<op, N, input, hasId, q, txs, produced>>
    /\ UNCHANGED txVars
    /\ UNCHANGED single
    /\ UNCHANGED pe
    /\ UNCHANGED fl

\* `if !buf.is_empty() { futures.push(..) }`, then on to try_join_all.
EbExhausted ==
    /\ eb.pc = "loop"
    /\ eb.read = Len(input)
    /\ workers' = IF eb.buf # <<>> THEN Append(workers, NewWorker(eb.buf))
                                   ELSE workers
    /\ eb' = [eb EXCEPT !.buf = <<>>, !.pc = "join"]
    /\ UNCHANGED <<op, N, input, hasId, q, txs, produced>>
    /\ UNCHANGED txVars
    /\ UNCHANGED single
    /\ UNCHANGED pe
    /\ UNCHANGED fl

\* Every model of the chunk is inserted, those that have an identity are
\* updated as well.
WorkerStart_InsertsAll(w) ==
    /\ eb.pc = "join"
    /\ workers[w].state = "created"
    /\ LET HasId(m) == hasId[m]
           update == SelectSeq(workers[w].chunk, HasId)
           insert == workers[w].chunk
           started == (IF update # <<>> THEN {UpdFrame(w)} ELSE {})
                        \cup (IF insert # <<>> THEN {InsFrame(w)} ELSE {})
       IN q' = [r \in DOMAIN q \cup started |->
                   IF r \in DOMAIN q THEN q[r]
                   ELSE IF r = UpdFrame(w) THEN NewFrame(update)
                   ELSE NewFrame(insert)]
    /\ workers' = [workers EXCEPT ![w].state = "polled"]
    /\ UNCHANGED <<op, N, input, hasId, eb, txs, produced>>
    /\ UNCHANGED txVars
    /\ UNCHANGED single
    /\ UNCHANGED pe
    /\ UNCHANGED fl

\* Both batched operations are started for every chunk, also over an empty
\* part.
WorkerStart_AlwaysBoth(w) ==
    /\ eb.pc = "join"
    /\ workers[w].state = "created"
    /\ LET HasId(m) == hasId[m]
           NoId(m) == ~hasId[m]
           update == SelectSeq(workers[w].chunk, HasId)
           insert == SelectSeq(workers[w].chunk, NoId)
           started == {UpdFrame(w), InsFrame(w)}
       IN q' = [r \in DOMAIN q \cup started |->
                   IF r \in DOMAIN q THEN q[r]
                   ELSE IF r = UpdFrame(w) THEN NewFrame(update)
                   ELSE NewFrame(insert)]
    /\ workers' = [workers EXCEPT ![w].state = "polled"]
    /\ UNCHANGED <<op, N, input, hasId, eb, txs, produced>>
    /\ UNCHANGED txVars
    /\ UNCHANGED single
    /\ UNCHANGED pe
    /\ UNCHANGED fl

\* The worker's future is spawned: it may make its first step as soon as it
\* has been created, while the input is still being read.
WorkerStart_Spawned(w) ==
    /\ eb.pc \in {"loop", "join"}
    /\ workers[w].state = "created"
    /\ LET HasId(m) == hasId[m]
           NoId(m) == ~hasId[m]
           update == SelectSeq(workers[w].chunk, HasId)
           insert == SelectSeq(workers[w].chunk, NoId)
           started == (IF update # <<>> THEN {UpdFrame(w)} ELSE {})
                        \cup (IF insert # <<>> THEN {InsFrame(w)} ELSE {})
       IN q' = [r \in DOMAIN q \cup started |->
                   IF r \in DOMAIN q THEN q[r]
                   ELSE IF r = UpdFrame(w) THEN NewFrame(update)
                   ELSE NewFrame(insert)]
    /\ workers' = [workers EXCEPT ![w].state = "polled"]
    /\ UNCHANGED <<op, N, input, hasId, eb, txs, produced>>
    /\ UNCHANGED txVars
    /\ UNCHANGED single
    /\ UNCHANGED pe
    /\ UNCHANGED fl

\* The whole chunk goes through one batched operation, and so through one
\* transaction per N models, updates and inserts together.
WorkerStart_OneTransaction(w) ==
    /\ eb.pc = "join"
    /\ workers[w].state = "created"
    /\ LET started == IF workers[w].chunk # <<>> THEN {UpdFrame(w)} ELSE {}
       IN q' = [r \in DOMAIN q \cup started |->
                   IF r \in DOMAIN q THEN q[r] ELSE NewFrame(workers[w].chunk)]
    /\ workers' = [workers EXCEPT ![w].state = "polled"]
    /\ UNCHANGED <<op, N, input, hasId, eb, txs, produced>>
    /\ UNCHANGED txVars
    /\ UNCHANGED single
    /\ UNCHANGED pe
    /\ UNCHANGED fl

\* First poll of chunk-worker w (save_batch's closure): the chunk is split
\* by `model.get_id().is_some()` into `update` and `insert`, and update_batch
\* and/or insert_batch (execute_query over that part) are started.
WorkerStart(w) ==
    /\ eb.pc = "join"
    /\ workers[w].state = "created"
    /\ LET HasId(m) == hasId[m]
           NoId(m) == ~hasId[m]
           update == SelectSeq(workers[w].chunk, HasId)
           insert == SelectSeq(workers[w].chunk, NoId)
           started == (IF update # <<>> THEN {UpdFrame(w)} ELSE {})
                        \cup (IF insert # <<>> THEN {InsFrame(w)} ELSE {})
       IN q' = [r \in DOMAIN q \cup started |->
                   IF r \in DOMAIN q THEN q[r]
                   ELSE IF r = UpdFrame(w) THEN NewFrame(update)
                   ELSE NewFrame(insert)]
    /\ workers' = [workers EXCEPT ![w].state = "polled"]
    /\ UNCHANGED <<op, N, input, hasId, eb, txs, produced>>
    /\ UNCHANGED txVars
    /\ UNCHANGED single
    /\ UNCHANGED pe
    /\ UNCHANGED fl

\* `try_join_all(futures).await?; Ok(())` with every worker ready with Ok.
EbJoin ==
    /\ eb.pc = "join"
    /\ \A w \in DOMAIN workers : workers[w].state = "polled"
    /\ \A r \in DOMAIN q \ {Main} : q[r].pc = "done" /\ q[r].res.tag = "Ok"
    /\ eb' = [eb EXCEPT !.pc = "done", !.res = Ok(<<>>)]
    /\ UNCHANGED <<op, N, input, hasId, q, workers, txs, produced>>
    /\ UNCHANGED txVars
    /\ UNCHANGED single
    /\ UNCHANGED pe
    /\ UNCHANGED fl

\* ------------------------------ TransactionRepository (transactions/mod.rs)
\* An action or callback `i` ran on handle `tx`: a successful one has executed
\* its statement through the handle, a failing one has not.
ActionEffect(tx, i, ok) == IF ok THEN Executed(tx, i) ELSE tx

\* `self.pool().begin().await.map_err(..)?` of a strategy.
BeginTx(next) ==
    /\ tpc = "begin"
    /\ \E ok \in BOOLEAN :
         IF ok
           THEN /\ txs' = Append(txs, NewTx(0))
                /\ tpc' = next
                /\ UNCHANGED <<result, produced>>
           ELSE LET e == Error("begin", 1)
                IN /\ result' = Err(<<e>>)
                   /\ produced' = Append(produced, e)
                   /\ tpc' = "done"
                   /\ UNCHANGED txs

\* ---- with_transaction
WtBegin ==
    /\ op \in WtOps
    /\ BeginTx("callback")
    /\ UNCHANGED <<op, nAct, idx, ret, results, errors, act, leaked, calls>>
    /\ UNCHANGED lockVars
    /\ UNCHANGED batchVars
    /\ UNCHANGED single

\* `let (ret, tx) = callback(transaction).await;`
WtCallback ==
    /\ op = "with_transaction"
    /\ tpc = "callback"
    /\ calls' = Append(calls, 1)
    /\ \E ok \in BOOLEAN :
         /\ txs' = [txs EXCEPT ![1] = ActionEffect(@, 1, ok)]
         /\ IF ok
              THEN /\ ret' = Ok(<<1>>)
                   /\ UNCHANGED produced
              ELSE LET e == Error("action", 1)
                   IN /\ ret' = Err(<<e>>)
                      /\ produced' = Append(produced, e)
    /\ tpc' = "finish"
    /\ UNCHANGED <<op, nAct, idx, results, errors, act, leaked, result>>
    /\ UNCHANGED lockVars
    /\ UNCHANGED batchVars
    /\ UNCHANGED single

\* The commit's result is discarded (`let _ = tx.commit().await; Ok(val)`).
WtFinish_IgnoresCommitError ==
    /\ op \in WtOps
    /\ tpc = "finish"
    /\ \E ok \in BOOLEAN :
         IF ret.tag = "Ok"
           THEN /\ result' = ret
                /\ IF ok
                     THEN /\ txs' = [txs EXCEPT ![1] = Committed(@)]
                          /\ UNCHANGED produced
                     ELSE /\ txs' = [txs EXCEPT ![1] = CommitFailed(@)]
                          /\ produced' = Append(produced, Error("commit", 1))
           ELSE /\ txs' = [txs EXCEPT ![1] = RolledBack(@)]
                /\ IF ok
                     THEN /\ result' = ret
                          /\ UNCHANGED produced
                     ELSE LET e == Error("rollback", 1)
                          IN /\ result' = Err(<<e>>)
                             /\ produced' = Append(produced, e)
    /\ tpc' = "done"
    /\ UNCHANGED <<op, nAct, idx, ret, results, errors, act, leaked, calls>>
    /\ UNCHANGED lockVars
    /\ UNCHANGED batchVars
    /\ UNCHANGED single

\* The transaction is committed whatever the callback returned.
WtFinish_AlwaysCommits ==
    /\ op \in WtOps
    /\ tpc = "finish"
    /\ \E ok \in BOOLEAN :
         IF ok
           THEN /\ txs' = [txs EXCEPT ![1] = Committed(@)]
                /\ result' = ret
                /\ UNCHANGED produced
           ELSE LET e == Error("commit", 1)
                IN /\ txs' = [txs EXCEPT ![1] = CommitFailed(@)]
                   /\ result' = Err(<<e>>)
                   /\ produced' = Append(produced, e)
    /\ tpc' = "done"
    /\ UNCHANGED <<op, nAct, idx, ret, results, errors, act, leaked, calls>>
    /\ UNCHANGED lockVars
    /\ UNCHANGED batchVars
    /\ UNCHANGED single

\* `match ret { Ok(val) => { tx.commit().await.map_err(E::from)?; Ok(val) }
\*              Err(err) => { tx.rollback().await.map_err(E::from)?; Err(err) } }`
WtFinish ==
    /\ op \in WtOps
    /\ tpc = "finish"
    /\ \E ok \in BOOLEAN :
         IF ret.tag = "Ok"
           THEN IF ok
                  THEN /\ txs' = [txs EXCEPT ![1] = Committed(@)]
                       /\ result' = ret
                       /\ UNCHANGED produced
                  ELSE LET e == Error("commit", 1)
                       IN /\ txs' = [txs EXCEPT ![1] = CommitFailed(@)]
                          /\ result' = Err(<<e>>)
                          /\ produced' = Append(produced, e)
           ELSE /\ txs' = [txs EXCEPT ![1] = RolledBack(@)]
                /\ IF ok
                     THEN /\ result' = ret
                          /\ UNCHANGED produced
                     ELSE LET e == Error("rollback", 1)
                          IN /\ result' = Err(<<e>>)
                             /\ produced' = Append(produced, e)
    /\ tpc' = "done"
    /\ UNCHANGED <<op, nAct, idx, ret, results, errors, act, leaked, calls>>
    /\ UNCHANGED lockVars
    /\ UNCHANGED batchVars
    /\ UNCHANGED single

\* ---- transaction_sequential
TsBegin ==
    /\ op = "transaction_sequential"
    /\ BeginTx("loop")
    /\ UNCHANGED <<op, nAct, idx, ret, results, errors, act, leaked, calls>>
    /\ UNCHANGED lockVars
    /\ UNCHANGED batchVars
    /\ UNCHANGED single

\* The actions are taken from the back of the list.
TsAction_LastFirst ==
    /\ op = "transaction_sequential"
    /\ tpc = "loop"
    /\ idx < nAct
    /\ LET i == nAct - idx
       IN /\ idx' = idx + 1
          /\ calls' = Append(calls, i)
          /\ \E ok \in BOOLEAN :
               /\ txs' = [txs EXCEPT ![1] = ActionEffect(@, i, ok)]
               /\ IF ok
                    THEN /\ results' = Append(results, i)
                         /\ UNCHANGED <<errors, produced, tpc>>
                    ELSE LET e == Error("action", i)
                         IN /\ errors' = <<e>>
                            /\ produced' = Append(produced, e)
                            /\ tpc' = "rollback"
                            /\ UNCHANGED results
    /\ UNCHANGED <<op, nAct, ret, act, leaked, result>>
    /\ UNCHANGED lockVars
    /\ UNCHANGED batchVars
    /\ UNCHANGED single

\* `let (result, new_tx) = action(tx).await; tx = new_tx;
\*  match result { Ok(value) => results.push(value), Err(e) => .. }`
TsAction ==
    /\ op = "transaction_sequential"
    /\ tpc = "loop"
    /\ idx < nAct
    /\ LET i == idx + 1
       IN /\ idx' = i
          /\ calls' = Append(calls, i)
          /\ \E ok \in BOOLEAN :
               /\ txs' = [txs EXCEPT ![1] = ActionEffect(@, i, ok)]
               /\ IF ok
                    THEN /\ results' = Append(results, i)
                         /\ UNCHANGED <<errors, produced, tpc>>
                    ELSE LET e == Error("action", i)
                         IN /\ errors' = <<e>>
                            /\ produced' = Append(produced, e)
                            /\ tpc' = "rollback"
                            /\ UNCHANGED results
    /\ UNCHANGED <<op, nAct, ret, act, leaked, result>>
    /\ UNCHANGED lockVars
    /\ UNCHANGED batchVars
    /\ UNCHANGED single

\* The rollback's error replaces the action's error (as `map_err(E::from)?`
\* would do).
TsRollback_ReturnsRollbackError ==
    /\ op = "transaction_sequential"
    /\ tpc = "rollback"
    /\ txs' = [txs EXCEPT ![1] = RolledBack(@)]
    /\ \E ok \in BOOLEAN :
         IF ok
           THEN /\ result' = Err(errors)
                /\ UNCHANGED produced
           ELSE LET e == Error("rollback", 1)
                IN /\ result' = Err(<<e>>)
                   /\ produced' = Append(produced, e)
    /\ tpc' = "done"
    /\ UNCHANGED <<op, nAct, idx, ret, results, errors, act, leaked, calls>>
    /\ UNCHANGED lockVars
    /\ UNCHANGED batchVars
    /\ UNCHANGED single

\* `let _ = tx.rollback().await; return Err(e);`
TsRollback ==
    /\ op = "transaction_sequential"
    /\ tpc = "rollback"
    /\ txs' = [txs EXCEPT ![1] = RolledBack(@)]
    /\ \E ok \in BOOLEAN :
         produced' = IF ok THEN produced
                           ELSE Append(produced, Error("rollback", 1))
    /\ result' = Err(errors)
    /\ tpc' = "done"
    /\ UNCHANGED <<op, nAct, idx, ret, results, errors, act, leaked, calls>>
    /\ UNCHANGED lockVars
    /\ UNCHANGED batchVars
    /\ UNCHANGED single

\* The loop ends one action early.
TsCommit_Early ==
    /\ op = "transaction_sequential"
    /\ tpc = "loop"
    /\ idx + 1 >= nAct
    /\ \E ok \in BOOLEAN :
         IF ok
           THEN /\ txs' = [txs EXCEPT ![1] = Committed(@)]
                /\ result' = Ok(results)
                /\ UNCHANGED produced
           ELSE LET e == Error("commit", 1)
                IN /\ txs' = [txs EXCEPT ![1] = CommitFailed(@)]
                   /\ result' = Err(<<e>>)
                   /\ produced' = Append(produced, e)
    /\ tpc' = "done"
    /\ UNCHANGED <<op, nAct, idx, ret, results, errors, act, leaked, calls>>
    /\ UNCHANGED lockVars
    /\ UNCHANGED batchVars
    /\ UNCHANGED single

\* `tx.commit().await.map_err(E::from)?; Ok(results)`
TsCommit ==
    /\ op = "transaction_sequential"
    /\ tpc = "loop"
    /\ idx = nAct
    /\ \E ok \in BOOLEAN :
         IF ok
           THEN /\ txs' = [txs EXCEPT ![1] = Committed(@)]
                /\ result' = Ok(results)
                /\ UNCHANGED produced
           ELSE LET e == Error("commit", 1)
                IN /\ txs' = [txs EXCEPT ![1] = CommitFailed(@)]
                   /\ result' = Err(<<e>>)
                   /\ produced' = Append(produced, e)
    /\ tpc' = "done"
    /\ UNCHANGED <<op, nAct, idx, ret, results, errors, act, leaked, calls>>
    /\ UNCHANGED lockVars
    /\ UNCHANGED batchVars
    /\ UNCHANGED single

\* ---- try_transaction
TtBegin ==
    /\ op = "try_transaction"
    /\ BeginTx("loop")
    /\ UNCHANGED <<op, nAct, idx, ret, results, errors, act, leaked, calls>>
    /\ UNCHANGED lockVars
    /\ UNCHANGED batchVars
    /\ UNCHANGED single

\* The handle is rolled back as soon as an action fails, and the loop goes on
\* with the remaining actions.
TtAction_RollsBackAtOnce ==
    /\ op = "try_transaction"
    /\ tpc = "loop"
    /\ idx < nAct
    /\ LET i == idx + 1
       IN /\ idx' = i
          /\ calls' = Append(calls, i)
          /\ \E ok \in BOOLEAN :
               IF ok
                 THEN /\ txs' = [txs EXCEPT ![1] = ActionEffect(@, i, ok)]
                      /\ results' = Append(results, i)
                      /\ UNCHANGED <<errors, produced>>
                 ELSE LET e == Error("action", i)
                      IN /\ txs' = [txs EXCEPT ![1] = RolledBack(@)]
                         /\ errors' = Append(errors, e)
                         /\ produced' = Append(produced, e)
                         /\ UNCHANGED results
    /\ UNCHANGED <<op, nAct, ret, act, leaked, result, tpc>>
    /\ UNCHANGED lockVars
    /\ UNCHANGED batchVars
    /\ UNCHANGED single

\* `match result { Ok(result) => results.push(result), Err(e) => errors.push(e) }`
TtAction ==
    /\ op = "try_transaction"
    /\ tpc = "loop"
    /\ idx < nAct
    /\ LET i == idx + 1
       IN /\ idx' = i
          /\ calls' = Append(calls, i)
          /\ \E ok \in BOOLEAN :
               /\ txs' = [txs EXCEPT ![1] = ActionEffect(@, i, ok)]
               /\ IF ok
                    THEN /\ results' = Append(results, i)
                         /\ UNCHANGED <<errors, produced>>
                    ELSE LET e == Error("action", i)
                         IN /\ errors' = Append(errors, e)
                            /\ produced' = Append(produced, e)
                            /\ UNCHANGED results
    /\ UNCHANGED <<op, nAct, ret, act, leaked, result, tpc>>
    /\ UNCHANGED lockVars
    /\ UNCHANGED batchVars
    /\ UNCHANGED single

\* Only the first collected error is returned.
TtFinish_FirstErrorOnly ==
    /\ op = "try_transaction"
    /\ tpc = "loop"
    /\ idx = nAct
    /\ \E ok \in BOOLEAN :
         IF errors = <<>>
           THEN IF ok
                  THEN /\ txs' = [txs EXCEPT ![1] = Committed(@)]
                       /\ result' = Ok(results)
                       /\ UNCHANGED produced
                  ELSE LET e == Error("commit", 1)
                       IN /\ txs' = [txs EXCEPT ![1] = CommitFailed(@)]
                          /\ result' = Err(<<e>>)
                          /\ produced' = Append(produced, e)
           ELSE /\ txs' = [txs EXCEPT ![1] = RolledBack(@)]
                /\ produced' = IF ok THEN produced
                                     ELSE Append(produced, Error("rollback", 1))
                /\ result' = Err(<<errors[1]>>)
    /\ tpc' = "done"
    /\ UNCHANGED <<op, nAct, idx, ret, results, errors, act, leaked, calls>>
    /\ UNCHANGED lockVars
    /\ UNCHANGED batchVars
    /\ UNCHANGED single

\* `if errors.is_empty() { tx.commit().await.map_err(|e| vec![E::from(e)])?;
\*                          Ok(results) }
\*  else { let _ = tx.rollback().await; Err(errors) }`
TtFinish ==
    /\ op = "try_transaction"
    /\ tpc = "loop"
    /\ idx = nAct
    /\ \E ok \in BOOLEAN :
         IF errors = <<>>
           THEN IF ok
                  THEN /\ txs' = [txs EXCEPT ![1] = Committed(@)]
                       /\ result' = Ok(results)
                       /\ UNCHANGED produced
                  ELSE LET e == Error("commit", 1)
                       IN /\ txs' = [txs EXCEPT ![1] = CommitFailed(@)]
                          /\ result' = Err(<<e>>)
                          /\ produced' = Append(produced, e)
           ELSE /\ txs' = [txs EXCEPT ![1] = RolledBack(@)]
                /\ produced' = IF ok THEN produced
                                     ELSE Append(produced, Error("rollback", 1))
                /\ result' = Err(errors)
    /\ tpc' = "done"
    /\ UNCHANGED <<op, nAct, idx, ret, results, errors, act, leaked, calls>>
    /\ UNCHANGED lockVars
    /\ UNCHANGED batchVars
    /\ UNCHANGED single

\* ---- transaction_concurrent
\* begin, `Arc::new(Mutex::new(tx))`, and one future per action, each holding
\* a clone of the Arc: `actions.into_iter().map(|f| f(tx.clone())).collect()`.
\* The action functions are called (the futures created) before begin is
\* awaited, so also when it fails.
TcBegin_CreatesFuturesFirst ==
    /\ op = "transaction_concurrent"
    /\ BeginTx("join")
    /\ act' = [i \in 1..nAct |-> "created"]
    /\ calls' = [i \in 1..nAct |-> i]
    /\ UNCHANGED <<op, nAct, idx, ret, results, errors, leaked>>
    /\ UNCHANGED lockVars
    /\ UNCHANGED batchVars
    /\ UNCHANGED single

TcBegin ==
    /\ op = "transaction_concurrent"
    /\ BeginTx("join")
    /\ IF tpc' = "join"
         THEN /\ act' = [i \in 1..nAct |-> "created"]
              /\ calls' = [i \in 1..nAct |-> i]
         ELSE UNCHANGED <<act, calls>>
    /\ UNCHANGED <<op, nAct, idx, ret, results, errors, leaked>>
    /\ UNCHANGED lockVars
    /\ UNCHANGED batchVars
    /\ UNCHANGED single

\* How the actions of one call use the mutex around the handle:
\*   "release": an action locks and unlocks between two of its own
\*              suspension points, never holding the guard across an await;
\*   "hold":    an action locks first and keeps the guard while its query is
\*              awaited, as in the documented usage
\*              `let mut tx = tx_arc.lock();
\*               repo.save_with_executor(&mut *tx, model1).await`.
Disciplines == {"release", "hold"}

\* Every action keeps its guard across the await, whatever the discipline.
GuardAfterPoll_Kept(i) == i

\* Holder of the MutexGuard when action i returns Pending from its first
\* poll.
GuardAfterPoll(i) == IF mode = "hold" THEN i ELSE 0

\* An action called `lock()` on the parking_lot mutex while another action's
\* guard is alive.  `lock()` blocks the thread; all action futures are polled
\* by the one task that awaits try_join_all, so nothing of this call is
\* polled again.
Blocked == \E i \in DOMAIN act : act[i] = "blocked"

\* try_join_all polls action future i for the first time: the action locks
\* the mutex.  The action may store a clone of the Arc somewhere that
\* outlives its future.
TcStart(i) ==
    /\ op = "transaction_concurrent"
    /\ tpc = "join"
    /\ errors = <<>>
    /\ ~Blocked
    /\ act[i] = "created"
    /\ IF lock # 0
         THEN /\ act' = [act EXCEPT ![i] = "blocked"]
              /\ UNCHANGED <<lock, leaked>>
         ELSE /\ act' = [act EXCEPT ![i] = "running"]
              /\ lock' = GuardAfterPoll(i)
              /\ \E keep \in BOOLEAN :
                   leaked' = IF keep THEN leaked \cup {i} ELSE leaked
    /\ UNCHANGED <<op, nAct, idx, ret, results, errors, result, calls, tpc,
                   txs, produced, mode>>
    /\ UNCHANGED batchVars
    /\ UNCHANGED single

\* The join waits for every action even after one has failed: the siblings
\* stay in flight instead of being dropped.
TcComplete_KeepsSiblings(i) ==
    /\ op = "transaction_concurrent"
    /\ tpc = "join"
    /\ errors = <<>>
    /\ ~Blocked
    /\ act[i] = "running"
    /\ \E ok \in BOOLEAN :
         /\ txs' = [txs EXCEPT ![1] = ActionEffect(@, i, ok)]
         /\ IF ok
              THEN /\ act' = [act EXCEPT ![i] = "ok"]
                   /\ UNCHANGED <<errors, produced>>
              ELSE LET e == Error("action", i)
                   IN /\ act' = [act EXCEPT ![i] = "err"]
                      /\ errors' = <<e>>
                      /\ produced' = Append(produced, e)
    /\ lock' = IF lock = i THEN 0 ELSE lock
    /\ UNCHANGED <<op, nAct, idx, ret, results, leaked, result, calls, tpc, mode>>
    /\ UNCHANGED batchVars
    /\ UNCHANGED single

\* Action future i becomes ready; its guard, if it holds one, is dropped.
\* On the first Err try_join_all stops polling and drops every future that
\* is not ready yet, with the guard it may hold.
TcComplete(i) ==
    /\ op = "transaction_concurrent"
    /\ tpc = "join"
    /\ errors = <<>>
    /\ ~Blocked
    /\ act[i] = "running"
    /\ \E ok \in BOOLEAN :
         /\ txs' = [txs EXCEPT ![1] = ActionEffect(@, i, ok)]
         /\ IF ok
              THEN /\ act' = [act EXCEPT ![i] = "ok"]
                   /\ lock' = IF lock = i THEN 0 ELSE lock
                   /\ UNCHANGED <<errors, produced>>
              ELSE LET e == Error("action", i)
                   IN /\ act' = [j \in DOMAIN act |->
                                   IF j = i THEN "err"
                                   ELSE IF act[j] = "ok" THEN "ok"
                                   ELSE "dropped"]
                      /\ errors' = <<e>>
                      /\ produced' = Append(produced, e)
                      /\ lock' = 0
    /\ UNCHANGED <<op, nAct, idx, ret, results, leaked, result, calls, tpc, mode>>
    /\ UNCHANGED batchVars
    /\ UNCHANGED single

\* The values are collected in the order in which the actions completed.
JoinOutputs_CompletionOrder == txs[1].log

\* `Ok(values)` of try_join_all: the output of the i-th future of the list
\* (the value of the i-th action) at position i.
JoinOutputs == [i \in DOMAIN act |-> i]

\* The outcome of the join is not looked at: the engine always goes on to
\* commit.
TcJoin_AlwaysCommits ==
    /\ op = "transaction_concurrent"
    /\ tpc = "join"
    /\ \/ errors # <<>>
       \/ \A i \in DOMAIN act : act[i] = "ok"
    /\ results' = IF errors = <<>> THEN JoinOutputs ELSE <<>>
    /\ IF leaked # {}
         THEN LET e == Error("PoolClosed", 0)
              IN /\ result' = Err(<<e>>)
                 /\ produced' = Append(produced, e)
                 /\ tpc' = "done"
         ELSE /\ tpc' = "commit"
              /\ UNCHANGED <<result, produced>>
    /\ UNCHANGED <<op, nAct, idx, ret, errors, act, leaked, calls, txs>>
    /\ UNCHANGED lockVars
    /\ UNCHANGED batchVars
    /\ UNCHANGED single

\* A clone of the Arc that is still outstanding is not noticed (as if the
\* handle were taken out of the mutex without Arc::into_inner).
TcJoin_IgnoresOutstanding ==
    /\ op = "transaction_concurrent"
    /\ tpc = "join"
    /\ \/ errors # <<>>
       \/ \A i \in DOMAIN act : act[i] = "ok"
    /\ results' = IF errors = <<>> THEN JoinOutputs ELSE <<>>
    /\ tpc' = IF errors = <<>> THEN "commit" ELSE "rollback"
    /\ UNCHANGED <<result, produced>>
    /\ UNCHANGED <<op, nAct, idx, ret, errors, act, leaked, calls, txs>>
    /\ UNCHANGED lockVars
    /\ UNCHANGED batchVars
    /\ UNCHANGED single

\* `let results = try_join_all(futures).await;` returns, then
\* `match Arc::into_inner(tx) { Some(mutex) => mutex.into_inner(),
\*                              None => return Err(E::from(Error::PoolClosed)) }`
TcJoin ==
    /\ op = "transaction_concurrent"
    /\ tpc = "join"
    /\ \/ errors # <<>>
       \/ \A i \in DOMAIN act : act[i] = "ok"
    /\ results' = IF errors = <<>> THEN JoinOutputs ELSE <<>>
    /\ IF leaked # {}
         THEN LET e == Error("PoolClosed", 0)
              IN /\ result' = Err(<<e>>)
                 /\ produced' = Append(produced, e)
                 /\ tpc' = "done"
         ELSE /\ tpc' = IF errors = <<>> THEN "commit" ELSE "rollback"
              /\ UNCHANGED <<result, produced>>
    /\ UNCHANGED <<op, nAct, idx, ret, errors, act, leaked, calls, txs>>
    /\ UNCHANGED lockVars
    /\ UNCHANGED batchVars
    /\ UNCHANGED single

\* The commit's result is discarded (`let _ = tx.commit().await`).
TcCommit_IgnoresError ==
    /\ op = "transaction_concurrent"
    /\ tpc = "commit"
    /\ \E ok \in BOOLEAN :
         IF ok
           THEN /\ txs' = [txs EXCEPT ![1] = Committed(@)]
                /\ UNCHANGED produced
           ELSE /\ txs' = [txs EXCEPT ![1] = CommitFailed(@)]
                /\ produced' = Append(produced, Error("commit", 1))
    /\ result' = Ok(results)
    /\ tpc' = "done"
    /\ UNCHANGED <<op, nAct, idx, ret, results, errors, act, leaked, calls>>
    /\ UNCHANGED lockVars
    /\ UNCHANGED batchVars
    /\ UNCHANGED single

\* `tx.commit().await.map_err(E::from)?; Ok(values)`
TcCommit ==
    /\ op = "transaction_concurrent"
    /\ tpc = "commit"
    /\ \E ok \in BOOLEAN :
         IF ok
           THEN /\ txs' = [txs EXCEPT ![1] = Committed(@)]
                /\ result' = Ok(results)
                /\ UNCHANGED produced
           ELSE LET e == Error("commit", 1)
                IN /\ txs' = [txs EXCEPT ![1] = CommitFailed(@)]
                   /\ result' = Err(<<e>>)
                   /\ produced' = Append(produced, e)
    /\ tpc' = "done"
    /\ UNCHANGED <<op, nAct, idx, ret, results, errors, act, leaked, calls>>
    /\ UNCHANGED lockVars
    /\ UNCHANGED batchVars
    /\ UNCHANGED single

\* The rollback's result is discarded (`let _ = tx.rollback().await; Err(e)`),
\* as transaction_sequential does.
TcRollback_KeepsActionError ==
    /\ op = "transaction_concurrent"
    /\ tpc = "rollback"
    /\ txs' = [txs EXCEPT ![1] = RolledBack(@)]
    /\ \E ok \in BOOLEAN :
         produced' = IF ok THEN produced
                           ELSE Append(produced, Error("rollback", 1))
    /\ result' = Err(errors)
    /\ tpc' = "done"
    /\ UNCHANGED <<op, nAct, idx, ret, results, errors, act, leaked, calls>>
    /\ UNCHANGED lockVars
    /\ UNCHANGED batchVars
    /\ UNCHANGED single

\* `tx.rollback().await.map_err(E::from)?; Err(e)`
TcRollback ==
    /\ op = "transaction_concurrent"
    /\ tpc = "rollback"
    /\ txs' = [txs EXCEPT ![1] = RolledBack(@)]
    /\ \E ok \in BOOLEAN :
         IF ok
           THEN /\ result' = Err(errors)
                /\ UNCHANGED produced
           ELSE LET e == Error("rollback", 1)
                IN /\ result' = Err(<<e>>)
                   /\ produced' = Append(produced, e)
    /\ tpc' = "done"
    /\ UNCHANGED <<op, nAct, idx, ret, results, errors, act, leaked, calls>>
    /\ UNCHANGED lockVars
    /\ UNCHANGED batchVars
    /\ UNCHANGED single

\* ------------------------------------------------- filters (filter/, macros)
\* A filter made by sql_operator!(Equals, "=") and its like: `value` is
\* Some(..) (applies) or None.
Operator(applies) == [k |-> "op", applies |-> applies]

\* A filter made by sql_operator!(InValues[], "IN") over n values.
InValues(n) == [k |-> "in", n |-> n]

\* `Not { inner }`, `And { left, right }`, `Or { left, right }`.
Not(x) == [k |-> "not", inner |-> x]
And(l, r) == [k |-> "and", left |-> l, right |-> r]
Or(l, r) == [k |-> "or", left |-> l, right |-> r]

\* The filters made of n nodes by Filter::and, Filter::or and Filter::not
\* over operator filters.
RECURSIVE FiltersOfSize(_)
FiltersOfSize(n) ==
    IF n = 1
      THEN {Operator(b) : b \in BOOLEAN}
      ELSE {Not(x) : x \in FiltersOfSize(n - 1)}
             \cup UNION {{And(l, r) : l \in FiltersOfSize(i), r \in FiltersOfSize(n - 1 - i)}
                           \cup {Or(l, r) : l \in FiltersOfSize(i), r \in FiltersOfSize(n - 1 - i)}
                         : i \in 1..(n - 2)}

Filters == UNION {FiltersOfSize(n) : n \in 1..MaxNodes}

\* A combinator applies only when both sides do.
Either_Both(a, b) == a /\ b

\* `s.left.should_apply_filter() || s.right.should_apply_filter()`
Either(a, b) == a \/ b

\* An IN filter applies also over no values.
HasValues_Always(n) == TRUE

\* `!s.values.is_empty()`
HasValues(n) == n # 0

\* SqlFilter::should_apply_filter
RECURSIVE ShouldApply(_)
ShouldApply(f) ==
    CASE f.k = "op" -> f.applies
      [] f.k = "in" -> HasValues(f.n)
      [] f.k = "not" -> ShouldApply(f.inner)
      [] f.k \in {"and", "or"} -> Either(ShouldApply(f.left), ShouldApply(f.right))

\* `" AND "`, `" OR "`
Delimiter(k) == IF k = "and" THEN " AND " ELSE " OR "

\* Both sides and the delimiter are pushed whatever applies.
Joined_Always(a, b, l, r, d) == l \o <<d>> \o r

\* `match (s.left.should_apply_filter(), s.right.should_apply_filter())` of
\* And and Or; l and r are what the sides push.
Joined(a, b, l, r, d) ==
    CASE a /\ b -> l \o <<d>> \o r
      [] a /\ ~b -> l
      [] ~a /\ b -> r
      [] OTHER -> <<>>

\* `first` of the values loop: ", " before every value but the first.
RECURSIVE Binds(_)
Binds(n) == IF n = 0 THEN <<>>
            ELSE IF n = 1 THEN <<"?">>
            ELSE Binds(n - 1) \o <<", ", "?">>

\* SqlFilter::apply_filter: the pieces pushed to the query builder, in order.
RECURSIVE Emit(_)
Emit(f) ==
    CASE f.k = "op" -> IF f.applies THEN <<"col", " = ", "?">> ELSE <<>>
      [] f.k = "in" -> IF ~ShouldApply(f) THEN <<>>
                       ELSE <<"col", " IN (">> \o Binds(f.n) \o <<")">>
      [] f.k = "not" -> IF ShouldApply(f) THEN <<"NOT ">> \o Emit(f.inner) ELSE <<>>
      [] f.k \in {"and", "or"} ->
           Joined(ShouldApply(f.left), ShouldApply(f.right),
                  Emit(f.left), Emit(f.right), Delimiter(f.k))

\* The filter handed to a call, and what it pushed when the statement was
\* built.
NewFilterFrame(f) == [filter |-> f, out |-> <<>>]

IdleFilterFrame == NewFilterFrame([k |-> "none"])

\* delete_by_filter_query(filter): `if filter.should_apply_filter() {
\* builder.push("WHERE "); filter.apply_filter(&mut builder); }`
Applied(f) == IF ShouldApply(f) THEN Emit(f) ELSE <<>>

\* --------------------------- SaveRepository::save, delete_by_filter (single)
\* Frame of a single-statement call: `built` counts the statements built,
\* `stmts` are the statements executed on the executor, in order.
NewSingle(applies) == [pc |-> "call", applies |-> applies, kind |-> "none",
                       built |-> 0, stmts |-> <<>>, res |-> NoResult]

IdleSingle == [NewSingle(FALSE) EXCEPT !.pc = "idle"]

\* The branch is taken the wrong way round.
SaveBranch_Inverted(identity) == IF identity THEN "insert" ELSE "update"

\* `if model.get_id().is_none() { insert_with_executor(..) }
\*  else { update_with_executor(..) }`
SaveBranch(identity) == IF identity THEN "update" ELSE "insert"

\* save / save_ref pass `self.pool()` to the *_with_executor variant, which
\* takes the branch and builds the statement (`Self::insert_query(model)` /
\* `Self::update_query(model)`).
SaveDispatch ==
    /\ op \in SaveOps
    /\ single.pc = "call"
    /\ single' = [single EXCEPT !.pc = "query",
                                !.kind = SaveBranch(hasId[1]),
                                !.built = @ + 1]
    /\ UNCHANGED <<op, txs, produced>>
    /\ UNCHANGED batchVars
    /\ UNCHANGED txVars

\* The guard on the filter is missing.
Rejects_Never(applies) == FALSE

\* `if !filter.should_apply_filter()`
Rejects(applies) == ~applies

\* delete_by_filter passes `self.pool()` to delete_by_filter_with_executor:
\* `if !filter.should_apply_filter() { return Err(Error::Repository {..}) }`,
\* else `Self::delete_by_filter_query(filter).build()`.
DeleteDispatch ==
    /\ op \in DeleteOps
    /\ single.pc = "call"
    /\ IF Rejects(ShouldApply(fl.filter))
         THEN LET e == Error("Repository", 0)
              IN /\ single' = [single EXCEPT !.pc = "done", !.res = Err(<<e>>)]
                 /\ produced' = Append(produced, e)
                 /\ UNCHANGED fl
         ELSE /\ single' = [single EXCEPT !.pc = "query", !.kind = "delete",
                                          !.built = @ + 1]
              /\ fl' = [fl EXCEPT !.out = Applied(fl.filter)]
              /\ UNCHANGED produced
    /\ UNCHANGED <<op, txs>>
    /\ UNCHANGED <<N, input, hasId, q, eb, workers, pe>>
    /\ UNCHANGED txVars

\* `.execute(tx).await?; Ok(..)`: the statement is executed on the executor.
SingleExecute ==
    /\ op \in SaveOps \cup DeleteOps
    /\ single.pc = "query"
    /\ \E ok \in BOOLEAN :
         IF ok
           THEN /\ single' = [single EXCEPT !.pc = "done",
                                            !.stmts = Append(@, single.kind),
                                            !.res = Ok(<<>>)]
                /\ UNCHANGED produced
           ELSE LET e == Error("query", 1)
                IN /\ single' = [single EXCEPT !.pc = "done",
                                               !.stmts = Append(@, single.kind),
                                               !.res = Err(<<e>>)]
                   /\ produced' = Append(produced, e)
    /\ UNCHANGED <<op, txs>>
    /\ UNCHANGED batchVars
    /\ UNCHANGED txVars

\* save_in_transaction updates whether or not the model has an identity.
StatementOf_AlwaysUpdate(o) ==
    CASE o = "save_in_transaction" -> "update"
      [] o = "insert_in_transaction" -> "insert"
      [] o = "update_in_transaction" -> "update"
      [] o = "delete_by_id_in_transaction" -> "delete"

\* The statement run by the callback of an *_in_transaction entry point:
\* `self.save_with_executor(&mut *tx, model)`, `insert_with_executor`,
\* `update_with_executor`, `delete_by_id_with_executor`.
StatementOf(o) ==
    CASE o = "save_in_transaction" -> SaveBranch(hasId[1])
      [] o = "insert_in_transaction" -> "insert"
      [] o = "update_in_transaction" -> "update"
      [] o = "delete_by_id_in_transaction" -> "delete"

\* The callback of an *_in_transaction entry point:
\* `let res = self.<op>_with_executor(&mut *tx, model).await; (res, tx)`.
WtStatement ==
    /\ op \in InTxOps
    /\ tpc = "callback"
    /\ calls' = Append(calls, 1)
    /\ single' = [single EXCEPT !.kind = StatementOf(op), !.built = @ + 1,
                                !.stmts = Append(@, StatementOf(op))]
    /\ \E ok \in BOOLEAN :
         /\ txs' = [txs EXCEPT ![1] = ActionEffect(@, 1, ok)]
         /\ IF ok
              THEN /\ ret' = Ok(<<1>>)
                   /\ UNCHANGED produced
              ELSE LET e == Error("query", 1)
                   IN /\ ret' = Err(<<e>>)
                      /\ produced' = Append(produced, e)
    /\ tpc' = "finish"
    /\ UNCHANGED <<op, nAct, idx, results, errors, act, leaked, result>>
    /\ UNCHANGED lockVars
    /\ UNCHANGED batchVars

\* delete_by_values_in_transaction: `let filter = InValues::new(column,
\* values); self.delete_by_filter_in_transaction(filter)`.
ValuesDelegate ==
    /\ op = "delete_by_values_in_transaction"
    /\ tpc = "idle"
    /\ fl' = NewFilterFrame(InValues(Len(input)))
    /\ tpc' = "begin"
    /\ UNCHANGED <<op, nAct, idx, ret, results, errors, act, leaked, result, calls,
                   txs, produced>>
    /\ UNCHANGED lockVars
    /\ UNCHANGED <<N, input, hasId, q, eb, workers, pe>>
    /\ UNCHANGED single

\* The filter is not looked at inside the transaction: the statement is
\* built and executed whatever should_apply_filter() says.
WtFilterStatement_Unguarded ==
    /\ op \in FilterTxOps
    /\ tpc = "callback"
    /\ calls' = Append(calls, 1)
    /\ single' = [single EXCEPT !.kind = "delete", !.built = @ + 1,
                                !.stmts = Append(@, "delete")]
    /\ fl' = [fl EXCEPT !.out = Applied(fl.filter)]
    /\ \E ok \in BOOLEAN :
         /\ txs' = [txs EXCEPT ![1] = ActionEffect(@, 1, ok)]
         /\ IF ok
              THEN /\ ret' = Ok(<<>>)
                   /\ UNCHANGED produced
              ELSE LET e == Error("query", 1)
                   IN /\ ret' = Err(<<e>>)
                      /\ produced' = Append(produced, e)
    /\ tpc' = "finish"
    /\ UNCHANGED <<op, nAct, idx, results, errors, act, leaked, result>>
    /\ UNCHANGED lockVars
    /\ UNCHANGED <<N, input, hasId, q, eb, workers, pe>>

\* The callback of delete_by_filter_in_transaction:
\* `let res = self.delete_by_filter_with_executor(&mut *tx, filter).await;
\*  (res, tx)`, with the guard, the build and the execute of
\* delete_by_filter_with_executor.
WtFilterStatement ==
    /\ op \in FilterTxOps
    /\ tpc = "callback"
    /\ calls' = Append(calls, 1)
    /\ IF Rejects(ShouldApply(fl.filter))
         THEN LET e == Error("Repository", 0)
              IN /\ ret' = Err(<<e>>)
                 /\ produced' = Append(produced, e)
                 /\ UNCHANGED <<single, fl, txs>>
         ELSE /\ single' = [single EXCEPT !.kind = "delete", !.built = @ + 1,
                                          !.stmts = Append(@, "delete")]
              /\ fl' = [fl EXCEPT !.out = Applied(fl.filter)]
              /\ \E ok \in BOOLEAN :
                   /\ txs' = [txs EXCEPT ![1] = ActionEffect(@, 1, ok)]
                   /\ IF ok
                        THEN /\ ret' = Ok(<<>>)
                             /\ UNCHANGED produced
                        ELSE LET e == Error("query", 1)
                             IN /\ ret' = Err(<<e>>)
                                /\ produced' = Append(produced, e)
    /\ tpc' = "finish"
    /\ UNCHANGED <<op, nAct, idx, results, errors, act, leaked, result>>
    /\ UNCHANGED lockVars
    /\ UNCHANGED <<N, input, hasId, q, eb, workers, pe>>

\* ------------------------------------- BatchOperator::partition_execute
\* `let mut buf1 = Self::new(); let mut buf2 = Self::new();
\*  let mut futures = Vec::new();`
NewPartition == [pc |-> "loop", read |-> 0, buf1 |-> <<>>, buf2 |-> <<>>,
                 futures |-> <<>>, res |-> NoResult]

IdlePartition == [NewPartition EXCEPT !.pc = "idle"]

\* `futures.push(worker<fn>(buf<fn>.drain(..).collect()).boxed_local())`: the
\* future of worker `fn` over `chunk` is created, not polled.
NewFuture(fn, chunk) == [fn |-> fn, chunk |-> chunk, state |-> "created"]

\* The two branches are the wrong way round.
Route_Swapped(item) == IF hasId[item] THEN 2 ELSE 1

\* `if predicate(&item) { buf1.. } else { buf2.. }`; hasId[item] is the value
\* of the predicate on the item.
Route(item) == IF hasId[item] THEN 1 ELSE 2

\* Off by one: a chunk is handed over one push too late.
PeShouldPush_Late(buf) == Len(buf) = N + 1

\* `if buf1.len() == N` / `if buf2.len() == N` after the push.
PeShouldPush(buf) == Len(buf) = N

\* `for item in iter { if predicate(&item) { buf1.push(item); .. }
\*                     else { buf2.push(item); .. } }`
PePull ==
    /\ pe.pc = "loop"
    /\ pe.read < Len(input)
    /\ LET item == input[pe.read + 1]
           fn == Route(item)
           b == Append(IF fn = 1 THEN pe.buf1 ELSE pe.buf2, item)
           rest == IF PeShouldPush(b) THEN <<>> ELSE b
       IN pe' = [pe EXCEPT !.read = @ + 1,
                           !.buf1 = IF fn = 1 THEN rest ELSE @,
                           !.buf2 = IF fn = 2 THEN rest ELSE @,
                           !.futures = IF PeShouldPush(b)
                                         THEN Append(@, NewFuture(fn, b))
                                         ELSE @]
    /\ UNCHANGED <<op, N, input, hasId, q, eb, workers, txs, produced>>
    /\ UNCHANGED txVars
    /\ UNCHANGED single
    /\ UNCHANGED fl

\* `if !buf1.is_empty() { futures.push(..) }
\*  if !buf2.is_empty() { futures.push(..) }`, then on to try_join_all.
PeExhausted ==
    /\ pe.pc = "loop"
    /\ pe.read = Len(input)
    /\ pe' = [pe EXCEPT !.pc = "join", !.buf1 = <<>>, !.buf2 = <<>>,
                        !.futures =
                           @ \o (IF pe.buf1 # <<>> THEN <<NewFuture(1, pe.buf1)>>
                                                   ELSE <<>>)
                             \o (IF pe.buf2 # <<>> THEN <<NewFuture(2, pe.buf2)>>
                                                   ELSE <<>>)]
    /\ UNCHANGED <<op, N, input, hasId, q, eb, workers, txs, produced>>
    /\ UNCHANGED txVars
    /\ UNCHANGED single
    /\ UNCHANGED fl

\* try_join_all polls worker future f for the first time.
PeStart(f) ==
    /\ pe.pc = "join"
    /\ pe.futures[f].state = "created"
    /\ pe' = [pe EXCEPT !.futures[f].state = "running"]
    /\ UNCHANGED <<op, N, input, hasId, q, eb, workers, txs, produced>>
    /\ UNCHANGED txVars
    /\ UNCHANGED single
    /\ UNCHANGED fl

\* Worker future f becomes ready.  On Err try_join_all returns at once and
\* drops every future that is not ready; `?` returns the error from the
\* call.
PeComplete(f) ==
    /\ pe.pc = "join"
    /\ pe.futures[f].state = "running"
    /\ \E ok \in BOOLEAN :
         IF ok
           THEN /\ pe' = [pe EXCEPT !.futures[f].state = "ok"]
                /\ UNCHANGED produced
           ELSE LET e == Error("worker", f)
                IN /\ pe' = [pe EXCEPT
                               !.pc = "done",
                               !.res = Err(<<e>>),
                               !.futures = [g \in DOMAIN @ |->
                                   [@[g] EXCEPT !.state =
                                       IF g = f THEN "err"
                                       ELSE IF @ = "ok" THEN "ok"
                                       ELSE "dropped"]]]
                   /\ produced' = Append(produced, e)
    /\ UNCHANGED <<op, N, input, hasId, q, eb, workers, txs>>
    /\ UNCHANGED txVars
    /\ UNCHANGED single
    /\ UNCHANGED fl

\* `try_join_all(futures).await?; Ok(())` with every future ready with Ok.
PeJoin ==
    /\ pe.pc = "join"
    /\ \A f \in DOMAIN pe.futures : pe.futures[f].state = "ok"
    /\ pe' = [pe EXCEPT !.pc = "done", !.res = Ok(<<>>)]
    /\ UNCHANGED <<op, N, input, hasId, q, eb, workers, txs, produced>>
    /\ UNCHANGED txVars
    /\ UNCHANGED single
    /\ UNCHANGED fl

\* ------------------------------------------------------------ specification
Items(l) == [i \in 1..l |-> i]

IdleBatch == [pc |-> "idle", read |-> 0, buf |-> <<>>, res |-> NoResult]

\* ------------------------- insert_many, update_many, delete_many_by_id, save_all
\* `insert_batch::<DEFAULT_BATCH_SIZE>(self, models).await` (likewise
\* update_many, delete_many_by_id): the call enters execute_query over the
\* whole input; `save_batch::<DEFAULT_BATCH_SIZE, I>(self, models).await` of
\* save_all enters execute_batch.
ManyDelegate ==
    /\ op \in ManyOps
    /\ q[Main].pc = "idle"
    /\ eb.pc = "idle"
    /\ IF op = "save_all"
         THEN /\ eb' = [IdleBatch EXCEPT !.pc = "loop"]
              /\ UNCHANGED q
         ELSE /\ q' = [p \in {Main} |-> NewFrame(input)]
              /\ UNCHANGED eb
    /\ UNCHANGED <<op, N, input, hasId, workers, txs, produced>>
    /\ UNCHANGED txVars
    /\ UNCHANGED single
    /\ UNCHANGED pe
    /\ UNCHANGED fl

InitBatch ==
    /\ op = "execute_query"
    /\ fl = IdleFilterFrame
    /\ N \in 0..MaxN \cup {DEFAULT_BATCH_SIZE}
    /\ \E l \in 0..MaxL : input = Items(l)
    /\ hasId = [m \in DOMAIN input |-> FALSE]
    /\ q = [p \in {Main} |-> NewFrame(input)]
    /\ eb = IdleBatch
    /\ workers = <<>>
    /\ nAct = 0
    /\ tpc = "idle"
    /\ mode = "none"
    /\ single = IdleSingle
    /\ pe = IdlePartition

InitSave ==
    /\ op = "save_batch"
    /\ fl = IdleFilterFrame
    /\ N \in 0..MaxN \cup {DEFAULT_BATCH_SIZE}
    /\ \E l \in 0..MaxModels : input = Items(l)
    /\ hasId \in [DOMAIN input -> BOOLEAN]
    /\ q = [p \in {Main} |-> IdleFrame]
    /\ eb = [IdleBatch EXCEPT !.pc = "loop"]
    /\ workers = <<>>
    /\ nAct = 0
    /\ tpc = "idle"
    /\ mode = "none"
    /\ single = IdleSingle
    /\ pe = IdlePartition

InitCommon ==
    /\ txs = <<>>
    /\ idx = 0
    /\ ret = NoResult
    /\ results = <<>>
    /\ errors = <<>>
    /\ act = <<>>
    /\ leaked = {}
    /\ lock = 0
    /\ result = NoResult
    /\ calls = <<>>
    /\ produced = <<>>

InitTx ==
    /\ op \in Strategies
    /\ fl = IdleFilterFrame
    /\ nAct \in IF op = "with_transaction" THEN {1} ELSE 0..MaxActions
    /\ tpc = "begin"
    /\ mode \in IF op = "transaction_concurrent" THEN Disciplines ELSE {"none"}
    /\ single = IdleSingle
    /\ pe = IdlePartition
    /\ N = 0
    /\ input = <<>>
    /\ hasId = <<>>
    /\ q = [p \in {Main} |-> IdleFrame]
    /\ eb = IdleBatch
    /\ workers = <<>>

\* One model with or without identity for save, one filter that applies or
\* not for delete_by_filter.
InitSingle ==
    /\ op \in SaveOps \cup DeleteOps
    /\ input = Items(1)
    /\ hasId \in [DOMAIN input -> BOOLEAN]
    /\ fl \in IF op \in DeleteOps THEN {NewFilterFrame(f) : f \in Filters}
                                   ELSE {IdleFilterFrame}
    /\ single \in IF op \in DeleteOps THEN {NewSingle(ShouldApply(fl.filter))}
                                       ELSE {NewSingle(applies) : applies \in BOOLEAN}
    /\ pe = IdlePartition
    /\ N = 0
    /\ q = [p \in {Main} |-> IdleFrame]
    /\ eb = IdleBatch
    /\ workers = <<>>
    /\ nAct = 0
    /\ tpc = "idle"
    /\ mode = "none"

\* partition_execute over models, the predicate being "has an identity".
InitPartition ==
    /\ op = "partition_execute"
    /\ fl = IdleFilterFrame
    /\ N \in 0..MaxN
    /\ \E l \in 0..MaxModels : input = Items(l)
    /\ hasId \in [DOMAIN input -> BOOLEAN]
    /\ pe = NewPartition
    /\ q = [p \in {Main} |-> IdleFrame]
    /\ eb = IdleBatch
    /\ workers = <<>>
    /\ nAct = 0
    /\ tpc = "idle"
    /\ mode = "none"
    /\ single = IdleSingle

\* A call of one of the *_many entry points / of save_all: the batch size is
\* not the caller's choice.
InitMany ==
    /\ op \in ManyOps
    /\ fl = IdleFilterFrame
    /\ N = DEFAULT_BATCH_SIZE
    /\ \E l \in 0..(IF op = "save_all" THEN MaxModels ELSE MaxL) : input = Items(l)
    /\ hasId \in IF op = "save_all" THEN [DOMAIN input -> BOOLEAN]
                                    ELSE {[m \in DOMAIN input |-> FALSE]}
    /\ q = [p \in {Main} |-> IdleFrame]
    /\ eb = IdleBatch
    /\ workers = <<>>
    /\ nAct = 0
    /\ tpc = "idle"
    /\ mode = "none"
    /\ single = IdleSingle
    /\ pe = IdlePartition

\* A call of an *_in_transaction entry point on one model (or id).
InitInTx ==
    /\ op \in InTxOps
    /\ fl = IdleFilterFrame
    /\ nAct = 1
    /\ tpc = "begin"
    /\ mode = "none"
    /\ single = IdleSingle
    /\ pe = IdlePartition
    /\ N = 0
    /\ input = Items(1)
    /\ hasId \in [DOMAIN input -> BOOLEAN]
    /\ q = [p \in {Main} |-> IdleFrame]
    /\ eb = IdleBatch
    /\ workers = <<>>

\* A call of delete_by_filter_in_transaction on a filter, or of
\* delete_by_values_in_transaction on a sequence of values.
InitFilterTx ==
    /\ op \in FilterTxOps
    /\ nAct = 1
    /\ mode = "none"
    /\ single = IdleSingle
    /\ pe = IdlePartition
    /\ N = 0
    /\ hasId = <<>>
    /\ q = [p \in {Main} |-> IdleFrame]
    /\ eb = IdleBatch
    /\ workers = <<>>
    /\ IF op = "delete_by_values_in_transaction"
         THEN /\ \E l \in 0..MaxModels : input = Items(l)
              /\ fl = IdleFilterFrame
              /\ tpc = "idle"
         ELSE /\ input = <<>>
              /\ fl \in {NewFilterFrame(f) : f \in Filters}
              /\ tpc = "begin"

Init == InitCommon /\ (InitBatch \/ InitSave \/ InitTx \/ InitSingle \/ InitPartition
                          \/ InitMany \/ InitInTx \/ InitFilterTx)

Next ==
    \/ \E p \in DOMAIN q : Pull(p)
    \/ \E p \in DOMAIN q : Exhausted(p)
    \/ \E p \in DOMAIN q : BeginBatch(p)
    \/ \E p \in DOMAIN q : ExecItem(p)
    \/ \E p \in DOMAIN q : CommitBatch(p)
    \/ EbPull \/ EbExhausted
    \/ \E w \in DOMAIN workers : WorkerStart(w)
    \/ EbJoin
    \/ WtBegin \/ WtCallback \/ WtStatement \/ WtFinish
    \/ ValuesDelegate \/ WtFilterStatement
    \/ TsBegin \/ TsAction \/ TsRollback \/ TsCommit
    \/ TtBegin \/ TtAction \/ TtFinish
    \/ TcBegin
    \/ \E i \in DOMAIN act : TcStart(i)
    \/ \E i \in DOMAIN act : TcComplete(i)
    \/ TcJoin \/ TcCommit \/ TcRollback
    \/ SaveDispatch \/ DeleteDispatch \/ SingleExecute
    \/ PePull \/ PeExhausted
    \/ \E f \in DOMAIN pe.futures : PeStart(f)
    \/ \E f \in DOMAIN pe.futures : PeComplete(f)
    \/ PeJoin
    \/ ManyDelegate

Spec == Init /\ [][Next]_vars

\* One call of transaction_concurrent, driven by a fair executor: the task
\* awaiting the call is polled again whenever it can make progress, and every
\* query that was issued eventually completes.  (A thread blocked in lock()
\* enables no step.)
InitTc == Init /\ op = "transaction_concurrent"

NextTc ==
    \/ TcBegin
    \/ \E i \in DOMAIN act : TcStart(i)
    \/ \E i \in DOMAIN act : TcComplete(i)
    \/ TcJoin \/ TcCommit \/ TcRollback

LiveSpec == InitTc /\ [][NextTc]_vars /\ WF_vars(NextTc)

\* ================================================================ properties
Min(a, b) == IF a < b THEN a ELSE b
CeilDiv(a, b) == (a + b - 1) \div b
Range(s) == {s[i] : i \in DOMAIN s}
IsPrefix(s, t) == Len(s) <= Len(t) /\ \A i \in DOMAIN s : s[i] = t[i]

L == Len(input)
Frame == q[Main]
IsQuery == op = "execute_query"
IsSave == op = "save_batch"

\* The k-th group of N consecutive input items (the last one may be shorter).
Batch(k) == SubSeq(input, (k - 1) * N + 1, Min(k * N, L))

\* Items whose statement is part of a committed transaction.
CommittedRows == UNION {Range(txs[k].log) : k \in {j \in DOMAIN txs : txs[j].state = "Committed"}}

\* C1: for every L and N >= 1, execute_query runs the items in consecutive
\* batches of exactly N items (the last of L mod N items when N does not
\* divide L), the k-th transaction executes only items of the k-th batch, in
\* order, and commits only the complete batch; a call in which every store
\* operation succeeds returns Ok having begun and committed exactly
\* ceil(L/N) transactions (none when L = 0).
Thm_C1_Batches ==
    (IsQuery /\ N >= 1) =>
        /\ Len(txs) <= CeilDiv(L, N)
        /\ \A k \in DOMAIN txs :
             /\ IsPrefix(txs[k].log, Batch(k))
             /\ txs[k].commit <= 1
             /\ txs[k].state = "Committed" =>
                  /\ Len(txs[k].log) = IF k * N <= L THEN N ELSE L % N
                  /\ \A j \in DOMAIN txs[k].log : txs[k].log[j] = input[(k - 1) * N + j]
                  /\ txs[k].commit = 1
        /\ (Frame.pc = "done" /\ produced = <<>>) =>
             /\ Frame.res = Ok(<<>>)
             /\ Len(txs) = CeilDiv(L, N)
             /\ \A k \in DOMAIN txs : txs[k].state = "Committed"
             /\ CommittedRows = Range(input)

\* A call with L = 5, N = 2 that returned Ok after three transactions, the
\* last one holding the single trailing item.
Witness_C1 ==
    /\ IsQuery /\ N = 2 /\ L = 5
    /\ Frame.pc = "done" /\ Frame.res.tag = "Ok"
    /\ Len(txs) = 3 /\ txs[3].state = "Committed" /\ Len(txs[3].log) = 1

\* Batch number (1-based) an error of execute_query belongs to.
BatchOf(e) == IF e.src = "query" THEN CeilDiv(e.at, N) ELSE e.at

\* C2: when the query of an item fails in execute_query, the transaction of
\* its batch is never committed, so neither that item nor any other item of
\* the batch (those executed before it included) is committed; the call
\* returns exactly that error; every earlier batch is, and stays, committed
\* in full.
Thm_C2_FailedBatchRollsBack ==
    (IsQuery /\ N >= 1 /\ produced # <<>> /\ produced[1].src = "query") =>
        LET e == produced[1]
            b == BatchOf(e)
        IN /\ Frame.pc = "done"
           /\ Frame.res = Err(<<e>>)
           /\ Len(txs) = b
           /\ txs[b].state = "RolledBack"
           /\ txs[b].commit = 0
           /\ Range(Batch(b)) \cap CommittedRows = {}
           /\ \A k \in 1..(b - 1) :
                txs[k].state = "Committed" /\ txs[k].log = Batch(k)

\* The second item of the second batch failed after the first item of that
\* batch had been executed; the first batch is committed.
Witness_C2 ==
    /\ IsQuery /\ N = 2
    /\ Frame.res = Err(<<Error("query", 4)>>)
    /\ Len(txs) = 2 /\ txs[2].log = <<3>> /\ txs[1].state = "Committed"

\* C3: once a batch of execute_query has failed (begin, an item query or the
\* commit), nothing more is pulled from the input: the call has returned that
\* error with exactly b*N items read when the failing batch is the b-th full
\* batch (all L items when it is the trailing partial batch), and no
\* statement was issued for any item after that batch.
Thm_C3_StopsReading ==
    (IsQuery /\ N >= 1 /\ produced # <<>>) =>
        LET e == produced[1]
            b == BatchOf(e)
        IN /\ Frame.pc = "done"
           /\ Frame.res = Err(<<e>>)
           /\ Frame.read = Min(b * N, L)
           /\ (b * N <= L => Frame.read = b * N)
           /\ \A k \in DOMAIN txs : \A x \in Range(txs[k].log) : x <= Frame.read
           /\ Len(txs) <= b

\* The first full batch failed while three items were still unread.
Witness_C3 ==
    /\ IsQuery /\ N = 2 /\ L = 5
    /\ Frame.res.tag = "Err" /\ BatchOf(Frame.res.errs[1]) = 1
    /\ Frame.read = 2

\* ---- transaction strategies
Iota(n) == [j \in 1..n |-> j]
Began == txs # <<>>
IsActionError(e) == e.src = "action"
IsStoreError(e) == e.src \in {"begin", "commit", "rollback"}
ActionErrors == SelectSeq(produced, IsActionError)
StoreErrors == SelectSeq(produced, IsStoreError)
Increasing(s) == \A j, k \in DOMAIN s : j < k => s[j].at < s[k].at

\* C4: in transaction_sequential, when a_i is the first action to fail, the
\* actions invoked are exactly a_1..a_i (none after a_i), the handle is never
\* committed and is rolled back with the effects of a_1..a_(i-1), and the
\* call returns Err carrying exactly a_i's error (also when the rollback
\* itself fails).
Thm_C4_FailFast ==
    (op = "transaction_sequential" /\ ActionErrors # <<>>) =>
        LET i == ActionErrors[1].at
        IN /\ Len(ActionErrors) = 1
           /\ calls = Iota(i)
           /\ txs[1].log = Iota(i - 1)
           /\ txs[1].state # "Committed"
           /\ txs[1].commit = 0
           /\ tpc \in {"rollback", "done"}
           /\ tpc = "done" =>
                /\ result = Err(<<Error("action", i)>>)
                /\ txs[1].state = "RolledBack"
                /\ txs[1].rollback = 1

\* [a1, a2, a3] with a2 failing: Err(e2), a1 rolled back, a3 never invoked.
Witness_C4 ==
    /\ op = "transaction_sequential" /\ nAct = 3 /\ tpc = "done"
    /\ result = Err(<<Error("action", 2)>>)
    /\ txs[1].log = <<1>> /\ txs[1].state = "RolledBack"
    /\ calls = <<1, 2>>

\* C5: in transaction_sequential, when every action of the list succeeds (the
\* empty list included), commit is called exactly once and only after the
\* last action has completed, no rollback is called, and the call returns Ok
\* with one result per action in list order (commit succeeding, as begin did).
Thm_C5_CommitOnce ==
    op = "transaction_sequential" =>
        /\ Len(txs) <= 1
        /\ (Began /\ txs[1].commit >= 1) =>
             /\ idx = nAct
             /\ Len(results) = nAct
             /\ tpc = "done"
        /\ (tpc = "done" /\ Began /\ ActionErrors = <<>>) =>
             /\ calls = Iota(nAct)
             /\ txs[1].log = Iota(nAct)
             /\ txs[1].commit = 1
             /\ txs[1].rollback = 0
             /\ StoreErrors = <<>> =>
                  /\ result = Ok(Iota(nAct))
                  /\ txs[1].state = "Committed"

\* Three actions succeeded and the call returned Ok([r1, r2, r3]).
Witness_C5 ==
    /\ op = "transaction_sequential" /\ nAct = 3 /\ tpc = "done"
    /\ result = Ok(<<1, 2, 3>>)
    /\ txs[1].state = "Committed"

\* C6: try_transaction invokes every action in list order, also after a
\* failure; commit is called iff no action failed and then the call returns
\* all results in action order; otherwise rollback is called, nothing is
\* committed, and the call returns Err with the errors of exactly the failed
\* actions, in action order.
Thm_C6_CollectAll ==
    op = "try_transaction" =>
        /\ calls = Iota(idx)
        /\ (Began /\ txs[1].commit + txs[1].rollback >= 1) => idx = nAct
        /\ (tpc = "done" /\ Began) =>
             LET failed == (1..nAct) \ Range(txs[1].log)
             IN /\ calls = Iota(nAct)
                /\ errors = ActionErrors
                /\ {errors[j].at : j \in DOMAIN errors} = failed
                /\ Len(errors) = Cardinality(failed)
                /\ Increasing(errors)
                /\ txs[1].commit = (IF failed = {} THEN 1 ELSE 0)
                /\ txs[1].rollback = (IF failed = {} THEN 0 ELSE 1)
                /\ failed # {} =>
                     /\ result = Err(errors)
                     /\ txs[1].state = "RolledBack"
                /\ (failed = {} /\ StoreErrors = <<>>) =>
                     /\ result = Ok(Iota(nAct))
                     /\ txs[1].state = "Committed"

\* [a1, a2, a3] with a1 and a3 failing: Err([e1, e3]), a2 rolled back.
Witness_C6 ==
    /\ op = "try_transaction" /\ nAct = 3 /\ tpc = "done"
    /\ result = Err(<<Error("action", 1), Error("action", 3)>>)
    /\ txs[1].log = <<2>> /\ txs[1].state = "RolledBack"

\* C7: with_transaction begins one transaction, invokes the callback exactly
\* once with it, calls commit (and not rollback) when the callback returned
\* Ok and rollback (and not commit) when it returned Err, and returns the
\* callback's result (the commit or rollback succeeding).
Thm_C7_SingleCallback ==
    op = "with_transaction" =>
        /\ Len(txs) <= 1
        /\ Len(calls) <= 1
        /\ calls # <<>> => Began
        /\ (Began /\ tpc \in {"finish", "done"}) => calls = <<1>>
        /\ (Began /\ txs[1].state = "Committed") => ret.tag = "Ok"
        /\ (tpc = "done" /\ Began) =>
             /\ ret.tag = "Ok" => txs[1].commit = 1 /\ txs[1].rollback = 0
             /\ ret.tag = "Err" =>
                  /\ txs[1].commit = 0 /\ txs[1].rollback = 1
                  /\ txs[1].state = "RolledBack"
             /\ StoreErrors = <<>> =>
                  /\ result = ret
                  /\ ret.tag = "Ok" => txs[1].state = "Committed"

\* The callback failed: rolled back, and the callback's error is returned.
Witness_C7 ==
    /\ op = "with_transaction" /\ tpc = "done"
    /\ ret.tag = "Err" /\ result = ret
    /\ txs[1].rollback = 1 /\ txs[1].state = "RolledBack"

\* C8: transaction_concurrent begins one transaction shared by all actions;
\* commit or rollback is called only when no action is in flight any more;
\* it never commits when an action returned an error; having reclaimed the
\* handle it calls commit when every action succeeded (returning their
\* results) and rollback otherwise (returning the failed action's error).
Thm_C8_ConcurrentOutcome ==
    op = "transaction_concurrent" =>
        /\ Len(txs) <= 1
        /\ ActionErrors # <<>> =>
             /\ txs[1].state # "Committed"
             /\ txs[1].commit = 0
        /\ (Began /\ txs[1].commit + txs[1].rollback >= 1) =>
             \A i \in DOMAIN act : act[i] \in {"ok", "err", "dropped"}
        /\ (tpc = "done" /\ Began /\ leaked = {}) =>
             /\ ActionErrors = <<>> =>
                  /\ \A i \in DOMAIN act : act[i] = "ok"
                  /\ txs[1].commit = 1 /\ txs[1].rollback = 0
                  /\ StoreErrors = <<>> =>
                       /\ result = Ok(Iota(nAct))
                       /\ txs[1].state = "Committed"
             /\ ActionErrors # <<>> =>
                  /\ Len(ActionErrors) = 1
                  /\ txs[1].rollback = 1
                  /\ txs[1].state = "RolledBack"
                  /\ StoreErrors = <<>> => result = Err(<<ActionErrors[1]>>)

\* One action had succeeded when another failed: rolled back, its error
\* returned.
Witness_C8 ==
    /\ op = "transaction_concurrent" /\ nAct = 3 /\ tpc = "done"
    /\ \E i, j \in DOMAIN act : act[i] = "ok" /\ act[j] = "err"
    /\ result.tag = "Err" /\ result.errs = ActionErrors
    /\ txs[1].rollback = 1

\* C9 as stated: each strategy acquires one handle per call, and every call
\* that began a transaction has called commit or rollback on it by the time
\* it returns, on every path.
Orig_C9_AlwaysResolved ==
    op \in Strategies =>
        /\ Len(txs) <= 1
        /\ (tpc = "done" /\ Began) => txs[1].commit + txs[1].rollback = 1

\* C9 amended: each strategy begins at most one transaction per call
\* (exactly one once begin has succeeded), and every call that began one has
\* called exactly one of commit and rollback on it by the time it returns,
\* except transaction_concurrent when Arc::into_inner finds a reference still
\* outstanding: that call returns Error::PoolClosed having called neither, and
\* the handle is still open.
Thm_C9_ResolvedUnlessOutstanding ==
    op \in Strategies =>
        /\ Len(txs) <= 1
        /\ (tpc # "begin" /\ \A e \in Range(produced) : e.src # "begin") => Len(txs) = 1
        /\ (tpc = "done" /\ Began) =>
             IF op = "transaction_concurrent" /\ leaked # {}
               THEN /\ txs[1].commit = 0 /\ txs[1].rollback = 0
                    /\ txs[1].state = "Open"
                    /\ result = Err(<<Error("PoolClosed", 0)>>)
               ELSE /\ txs[1].commit + txs[1].rollback = 1
                    /\ txs[1].state \in {"Committed", "RolledBack"}

\* A failure path on which the rollback itself failed: it was still called.
Witness_C9 ==
    /\ op = "try_transaction" /\ tpc = "done"
    /\ \E e \in Range(produced) : e.src = "rollback"
    /\ txs[1].rollback = 1 /\ txs[1].commit = 0

\* The call has returned / the value it returned.
Done == IF IsQuery THEN Frame.pc = "done"
        ELSE IF IsSave THEN eb.pc = "done"
        ELSE tpc = "done"
Returned == IF IsQuery THEN Frame.res
            ELSE IF IsSave THEN eb.res
            ELSE result

\* C10 as stated: every error produced during a call (by an action, an item
\* query, begin, commit or rollback) is part of the error value returned.
Orig_C10_NothingDropped ==
    Done => Range(produced) \subseteq Range(Returned.errs)

\* C10 amended: a call returns Err exactly when an error was produced during
\* it, and every error it returns was produced during it.  execute_query and
\* execute_batch (under save_batch) produce at most one error and return
\* it.  The errors that are produced but not
\* returned are: the rollback's error in transaction_sequential and
\* try_transaction (which return the action errors), and the callback's or
\* action's error in with_transaction (the statement's error in the
\* *_in_transaction methods built on it) and transaction_concurrent when the
\* rollback fails or (transaction_concurrent) the handle cannot be
\* reclaimed, where the later error is returned in its place.
Thm_C10_ErrorsReturned ==
    Done =>
        /\ (produced # <<>>) <=> (Returned.tag = "Err")
        /\ Returned.tag = "Err" =>
             /\ Returned.errs # <<>>
             /\ Range(Returned.errs) \subseteq Range(produced)
        /\ (IsQuery \/ IsSave) => Returned.errs = produced
        /\ op = "try_transaction" => Range(ActionErrors) \subseteq Range(Returned.errs)
        /\ \A e \in Range(produced) \ Range(Returned.errs) :
             LET last == produced[Len(produced)]
             IN \/ /\ op \in {"transaction_sequential", "try_transaction"}
                   /\ e.src = "rollback"
                   /\ Returned.errs = ActionErrors
                \/ /\ op \in WtOps \cup {"transaction_concurrent"}
                   /\ e.src \in (IF op \in InTxOps THEN {"query"}
                                ELSE IF op \in FilterTxOps THEN {"query", "Repository"}
                                ELSE {"action"})
                   /\ Returned.errs = <<last>>
                   /\ \/ last.src = "rollback"
                      \/ op = "transaction_concurrent" /\ last.src = "PoolClosed"

\* transaction_sequential returned the action's error although the rollback
\* had failed too.
Witness_C10 ==
    /\ op = "transaction_sequential" /\ tpc = "done"
    /\ Len(produced) = 2 /\ produced[2].src = "rollback"
    /\ result = Err(<<produced[1]>>)

\* The handle has been consumed by commit, by rollback or by being dropped.
Terminal(tx) == tx.state \in {"Committed", "RolledBack"}

\* C11: a handle goes Open -> Committed or Open -> RolledBack and stays
\* there.  In every step of every strategy (and of the batch operator):
\* commit is called at most once on a handle, rollback at most once, never
\* both; a handle that is Committed has had exactly one commit and no
\* rollback; and nothing (statement, commit, rollback) is issued on a handle
\* that is already Committed or RolledBack.
Thm_C11_HandleStateMachine ==
    [][/\ \A k \in DOMAIN txs : Terminal(txs[k]) => txs'[k] = txs[k]
       /\ \A k \in DOMAIN txs' :
            /\ txs'[k].state \in {"Open", "Committed", "RolledBack"}
            /\ txs'[k].commit <= 1
            /\ txs'[k].rollback <= 1
            /\ txs'[k].commit + txs'[k].rollback <= 1
            /\ txs'[k].state = "Committed" =>
                 txs'[k].commit = 1 /\ txs'[k].rollback = 0
            /\ txs'[k].state = "Open" =>
                 txs'[k].commit = 0 /\ txs'[k].rollback = 0]_vars

\* transaction_sequential rolled back after a failing action while actions
\* were still waiting in `actions`: none of them ran on the consumed handle.
Witness_C11 ==
    /\ op = "transaction_sequential" /\ tpc = "done" /\ Began
    /\ idx < nAct
    /\ txs[1].state = "RolledBack"
    /\ txs[1].rollback = 1 /\ txs[1].commit = 0
    /\ Len(txs[1].log) = idx - 1

\* C12: in transaction_concurrent, when a reference to the shared handle is
\* still outstanding at the point where the engine reclaims it, the call
\* returns an error (Error::PoolClosed) instead of the results, whether the
\* actions succeeded or one of them failed, and commit is never called on
\* the handle (nor is it ever Committed).
Thm_C12_OutstandingReference ==
    (op = "transaction_concurrent" /\ Began /\ leaked # {}) =>
        /\ txs[1].commit = 0
        /\ txs[1].state # "Committed"
        /\ tpc # "commit"
        /\ tpc = "done" =>
             /\ result = Err(<<Error("PoolClosed", 0)>>)
             /\ result.val = <<>>

\* Every action succeeded, one of them kept its clone of the Arc: the call
\* returned the error and the statements of all actions are uncommitted.
Witness_C12 ==
    /\ op = "transaction_concurrent" /\ tpc = "done" /\ Began
    /\ nAct >= 2
    /\ leaked # {}
    /\ \A i \in DOMAIN act : act[i] = "ok"
    /\ result.tag = "Err"
    /\ txs[1].commit = 0

\* The shared handle of transaction_concurrent has been finalized: commit or
\* rollback was called on it.
Finalized == Began /\ txs[1].commit + txs[1].rollback >= 1

Thm_C14_NoDeadlockWhenReleased ==
    /\ [][lock' # lock => (tpc = "join" /\ tpc' = "join" /\ act' # act)]_vars
    /\ [](mode = "release" => (lock = 0 /\ ~Blocked))
    /\ (mode = "release") =>
          <>(tpc = "done" /\ ((Began /\ leaked = {}) => Finalized))

\* Three actions that never keep the guard across an await: all were in
\* flight together, and the call committed and returned.
Witness_C14 ==
    /\ op = "transaction_concurrent" /\ mode = "release" /\ nAct = 3
    /\ tpc = "done" /\ Began
    /\ txs[1].state = "Committed"
    /\ Len(txs[1].log) = 3 /\ txs[1].log[1] = 3
    /\ result = Ok(Iota(3))

\* C15 as stated: with two or more actions that each lock the mutex and keep
\* the guard while their query is awaited (the documented usage), and every
\* query succeeding, the call eventually commits and returns all results.
Orig_C15_HeldGuardsCommit ==
    (op = "transaction_concurrent" /\ mode = "hold" /\ nAct >= 2) =>
        <>(\/ produced # <<>>
           \/ leaked # {}
           \/ /\ tpc = "done" /\ Began
              /\ txs[1].state = "Committed"
              /\ result = Ok(Iota(nAct)))

\* C16: save, save_ref, save_with_executor and save_ref_with_executor issue
\* exactly one query per call: an insert when the model's get_id() is None,
\* an update when it is Some; never both and never the other one.  No
\* transaction is begun.
Thm_C16_SaveOneQuery ==
    op \in SaveOps =>
        /\ Len(single.stmts) <= 1
        /\ single.built <= 1
        /\ \A j \in DOMAIN single.stmts :
             single.stmts[j] = IF hasId[1] THEN "update" ELSE "insert"
        /\ single.pc = "done" =>
             /\ Len(single.stmts) = 1
             /\ single.built = 1
             /\ single.res.tag \in {"Ok", "Err"}
        /\ txs = <<>>

\* save_ref of a model that has an identity returned after one update.
Witness_C16 ==
    /\ op = "save_ref" /\ single.pc = "done"
    /\ hasId[1]
    /\ single.stmts = <<"update">>
    /\ single.res.tag = "Ok"

\* The batched operations started by save_batch: frames of update_batch (odd
\* ids) and of insert_batch (even ids), and the models handed to each path.
UpdFrames == {p \in DOMAIN q \ {Main} : p % 2 = 1}
InsFrames == {p \in DOMAIN q \ {Main} : p % 2 = 0}
UpdatePath == UNION {Range(q[p].items) : p \in UpdFrames}
InsertPath == UNION {Range(q[p].items) : p \in InsFrames}
AllPolled == eb.pc \in {"join", "done"} /\ \A w \in DOMAIN workers : workers[w].state = "polled"

\* Number of statements executed for model m, over all transactions.
ExecCount(m) == Cardinality({kj \in {<<k, j>> : k \in DOMAIN txs, j \in 1..MaxModels + 1} :
                               kj[2] \in DOMAIN txs[kj[1]].log /\ txs[kj[1]].log[kj[2]] = m})

\* C17: save_batch sends every input model to exactly one of the two paths:
\* insert when its identity is absent, update when it is present.  The two
\* sets are disjoint, no model is handed over twice, and once every chunk has
\* been split their union is the input.  Every statement is executed by the
\* path of its model, at most once per model; when no store operation fails
\* the call returns Ok with every model executed exactly once, and committed.
Thm_C17_SavePartition ==
    IsSave =>
        /\ UpdatePath \cap InsertPath = {}
        /\ \A m \in UpdatePath : hasId[m]
        /\ \A m \in InsertPath : ~hasId[m]
        /\ \A p, r \in DOMAIN q \ {Main} :
             p # r => Range(q[p].items) \cap Range(q[r].items) = {}
        /\ \A p \in DOMAIN q \ {Main} :
             Cardinality(Range(q[p].items)) = Len(q[p].items)
        /\ AllPolled => UpdatePath \cup InsertPath = Range(input)
        /\ \A k \in DOMAIN txs :
             \A m \in Range(txs[k].log) :
                /\ m \in Range(q[txs[k].owner].items)
                /\ hasId[m] <=> txs[k].owner \in UpdFrames
        /\ \A m \in Range(input) : ExecCount(m) <= 1
        /\ (eb.pc = "done" /\ produced = <<>>) =>
             /\ eb.res = Ok(<<>>)
             /\ \A m \in Range(input) : ExecCount(m) = 1
             /\ CommittedRows = Range(input)

\* Three models of which the second has an identity, saved in chunks of two:
\* all were executed, each by its own path.
Witness_C17 ==
    /\ IsSave /\ eb.pc = "done" /\ eb.res.tag = "Ok"
    /\ L = 3 /\ N = 2
    /\ hasId = <<FALSE, TRUE, FALSE>>
    /\ UpdatePath = {2} /\ InsertPath = {1, 3}
    /\ CommittedRows = {1, 2, 3}

\* Chunk w of save_batch holds a model with / without an identity.
SomeId(chunk) == \E m \in Range(chunk) : hasId[m]
SomeNoId(chunk) == \E m \in Range(chunk) : ~hasId[m]

\* C18 as stated: for every L and N, save_batch partitions the input into one
\* 'needs insert' and one 'needs update' collection and runs exactly two
\* batched operations when both are non-empty, exactly one when only one is
\* non-empty, none when the input is empty.
Orig_C18_TwoOperations ==
    (IsSave /\ AllPolled) =>
        /\ Cardinality(UpdFrames) = IF SomeId(input) THEN 1 ELSE 0
        /\ Cardinality(InsFrames) = IF SomeNoId(input) THEN 1 ELSE 0

\* C18 amended: save_batch partitions every chunk handed out by
\* execute_batch (N consecutive models, the whole input when N = 0 or
\* L <= N) on its own: for each chunk it runs update_batch over the models
\* of the chunk that have an identity and insert_batch over those that have
\* none, both when both parts are non-empty, one when only one is, in chunk
\* order of the models.  A call runs between 0 (empty input) and
\* 2 * ceil(L/N) batched operations; exactly two / one / none as stated only
\* when the input fits one chunk.
Thm_C18_OperationsPerChunk ==
    IsSave =>
        /\ \A p \in DOMAIN q \ {Main} :
             /\ (p + 1) \div 2 \in DOMAIN workers
             /\ workers[(p + 1) \div 2].state = "polled"
             /\ q[p].items # <<>>
        /\ \A w \in DOMAIN workers :
             workers[w].state = "polled" =>
                LET HasId(m) == hasId[m]
                    NoId(m) == ~hasId[m]
                IN /\ UpdFrame(w) \in DOMAIN q <=> SomeId(workers[w].chunk)
                   /\ InsFrame(w) \in DOMAIN q <=> SomeNoId(workers[w].chunk)
                   /\ UpdFrame(w) \in DOMAIN q =>
                        q[UpdFrame(w)].items = SelectSeq(workers[w].chunk, HasId)
                   /\ InsFrame(w) \in DOMAIN q =>
                        q[InsFrame(w)].items = SelectSeq(workers[w].chunk, NoId)
        /\ Cardinality(DOMAIN q \ {Main}) <= 2 * Len(workers)
        /\ L = 0 => DOMAIN q = {Main}
        /\ (AllPolled /\ (N = 0 \/ L <= N)) =>
             /\ Cardinality(UpdFrames) = IF SomeId(input) THEN 1 ELSE 0
             /\ Cardinality(InsFrames) = IF SomeNoId(input) THEN 1 ELSE 0

\* Two chunks, the first with both kinds of model: three batched operations
\* (two of them updates), and the update and the insert of the first chunk
\* are executing in their transactions at the same time.
Witness_C18 ==
    /\ IsSave /\ N = 2 /\ L = 3
    /\ hasId = <<TRUE, FALSE, TRUE>>
    /\ AllPolled
    /\ Cardinality(DOMAIN q \ {Main}) = 3
    /\ Cardinality(UpdFrames) = 2
    /\ q[UpdFrame(1)].pc = "exec" /\ q[InsFrame(1)].pc = "exec"
    /\ q[UpdFrame(1)].pc = "exec" /\ q[InsFrame(1)].pc = "exec"

\* C19: delete_by_filter and delete_by_filter_with_executor, called with a
\* filter whose should_apply_filter() is false, return an error
\* (Error::Repository) without building the statement or issuing any query;
\* called with a filter that applies, they build and execute exactly one
\* delete statement.
Thm_C19_DeleteByFilterGuard ==
    op \in DeleteOps =>
        /\ ~single.applies =>
             /\ single.built = 0
             /\ single.stmts = <<>>
             /\ single.pc # "query"
             /\ single.pc = "done" => single.res = Err(<<Error("Repository", 0)>>)
        /\ single.applies =>
             /\ single.built <= 1
             /\ Len(single.stmts) <= 1
             /\ single.pc = "done" =>
                  /\ single.built = 1
                  /\ single.stmts = <<"delete">>
                  /\ \/ single.res = Ok(<<>>)
                     \/ single.res = Err(<<Error("query", 1)>>)
        /\ txs = <<>>

\* delete_by_filter returned the error for a filter that does not apply;
\* nothing was built or executed.
Witness_C19 ==
    /\ op = "delete_by_filter" /\ single.pc = "done"
    /\ ~single.applies
    /\ single.res.tag = "Err"
    /\ single.built = 0 /\ single.stmts = <<>>

\* Items executed for worker w so far / worker w has finished all its work.
WorkerFrames(w) == {UpdFrame(w), InsFrame(w)} \cap DOMAIN q
WorkerReady(w) == workers[w].state = "polled" /\ \A p \in WorkerFrames(w) : q[p].pc = "done"

\* C20: for every L and N >= 1, execute_batch invokes the worker exactly
\* ceil(L/N) times (never when L = 0), the w-th time on the w-th slice of N
\* consecutive input items (the last slice holding L mod N items when N does
\* not divide L); no worker is invoked twice or polled before the input is
\* exhausted, and all worker futures are driven together by one join (any
\* worker may step while another is still in flight).
Thm_C20_WorkerPerChunk ==
    (IsSave /\ N >= 1) =>
        /\ Len(workers) <= CeilDiv(L, N)
        /\ \A w \in DOMAIN workers :
             /\ workers[w].chunk = Batch(w)
             /\ Len(workers[w].chunk) = IF w * N <= L THEN N ELSE L % N
             /\ workers[w].chunk # <<>>
             /\ workers[w].state = "polled" => eb.pc \in {"join", "done"}
        /\ Len(workers) = eb.read \div N + (IF eb.pc = "loop" THEN 0
                                            ELSE IF L % N # 0 THEN 1 ELSE 0)
        /\ eb.pc \in {"join", "done"} => Len(workers) = CeilDiv(L, N)
        /\ L = 0 => workers = <<>>

\* L = 3, N = 1: three workers; the second has finished (its transaction is
\* committed) while the first is still executing and the third has started.
Witness_C20 ==
    /\ IsSave /\ N = 1 /\ L = 3
    /\ Len(workers) = 3 /\ eb.pc = "join"
    /\ WorkerReady(2)
    /\ workers[1].state = "polled" /\ ~WorkerReady(1)
    /\ workers[3].state = "polled" /\ ~WorkerReady(3)
    /\ \E k \in DOMAIN txs : txs[k].state = "Committed" /\ txs[k].log = <<2>>

\* C21: execute_batch has no cross-batch atomicity.  When a chunk-worker
\* fails the call returns at once with that worker's error (the only error
\* produced), and every transaction that a worker had committed before stays
\* committed: no step ever changes a committed transaction, the failing one
\* included.
Thm_C21_NoCrossBatchAtomicity ==
    [][IsSave =>
         /\ \A k \in DOMAIN txs :
              txs[k].state = "Committed" => txs'[k] = txs[k]
         /\ produced' # <<>> =>
              /\ eb'.pc = "done"
              /\ eb'.res = Err(<<produced'[1]>>)
              /\ Len(produced') = 1
         /\ eb.pc = "done" => txs' = txs]_vars

\* The call returned the error of a failed query of one chunk while the
\* transaction of another chunk is committed.
Witness_C21 ==
    /\ IsSave /\ eb.pc = "done" /\ eb.res.tag = "Err"
    /\ produced[1].src = "query"
    /\ \E k \in DOMAIN txs : txs[k].state = "Committed" /\ txs[k].log # <<>>
    /\ \E k \in DOMAIN txs : txs[k].state = "RolledBack"

\* ---- partition_execute
IsPartition == op = "partition_execute"

RECURSIVE Flatten(_)
Flatten(fs) == IF fs = <<>> THEN <<>> ELSE Head(fs).chunk \o Flatten(Tail(fs))

\* The items handed to worker `fn` so far, in hand-over order.
Stream(fn) == LET Is(x) == x.fn = fn IN Flatten(SelectSeq(pe.futures, Is))

\* The items read so far on which the predicate holds / does not hold.
ReadSoFar == SubSeq(input, 1, pe.read)
Holding == LET P(x) == hasId[x] IN SelectSeq(ReadSoFar, P)
NotHolding == LET P(x) == ~hasId[x] IN SelectSeq(ReadSoFar, P)

\* What C22 says apart from the size of the chunks: every item read is
\* handed (or buffered for) exactly one worker, worker1 gets the items on
\* which the predicate holds and worker2 the others, each stream in input
\* order; once the input is exhausted the streams are disjoint and cover
\* the input; a failing chunk fails the call with its error, and the call
\* returns Ok only when every chunk succeeded.
PartitionRouting ==
    /\ Stream(1) \o pe.buf1 = Holding
    /\ Stream(2) \o pe.buf2 = NotHolding
    /\ \A f \in DOMAIN pe.futures : pe.futures[f].chunk # <<>>
    /\ pe.pc \in {"join", "done"} =>
         /\ pe.read = L /\ pe.buf1 = <<>> /\ pe.buf2 = <<>>
         /\ Range(Stream(1)) \cap Range(Stream(2)) = {}
         /\ Range(Stream(1)) \cup Range(Stream(2)) = Range(input)
         /\ Len(Stream(1)) + Len(Stream(2)) = L
    /\ \A f \in DOMAIN pe.futures :
         pe.futures[f].state = "err" =>
            pe.pc = "done" /\ pe.res = Err(<<Error("worker", f)>>)
    /\ (pe.pc = "done" /\ pe.res.tag = "Ok") =>
         \A f \in DOMAIN pe.futures : pe.futures[f].state = "ok"

\* C22 as stated: partition_execute hands every item to exactly one worker
\* by the predicate, in order, the streams disjoint and covering the input,
\* a failing chunk failing the call, every chunk holding at most N items.
Orig_C22_PartitionChunks ==
    IsPartition =>
        /\ PartitionRouting
        /\ \A f \in DOMAIN pe.futures : Len(pe.futures[f].chunk) <= N

\* C22 amended: as stated, with the chunks holding at most N (exactly N,
\* except the last chunk of each stream) items when N >= 1; with N = 0 no
\* chunk is handed over while the input is read and each non-empty stream
\* goes to its worker as one chunk of all its items.
Thm_C22_PartitionExecute ==
    IsPartition =>
        /\ PartitionRouting
        /\ N >= 1 =>
             /\ \A f \in DOMAIN pe.futures : Len(pe.futures[f].chunk) <= N
             /\ Len(pe.buf1) < N /\ Len(pe.buf2) < N
             /\ pe.pc = "loop" =>
                  \A f \in DOMAIN pe.futures : Len(pe.futures[f].chunk) = N
        /\ N = 0 =>
             /\ pe.pc = "loop" => pe.futures = <<>>
             /\ \A f, g \in DOMAIN pe.futures :
                  pe.futures[f].fn = pe.futures[g].fn => f = g
             /\ \A f \in DOMAIN pe.futures :
                  pe.futures[f].chunk = Stream(pe.futures[f].fn)

\* N = 1, three items of which the second fails the predicate: worker1 got
\* <<1>> and <<3>>, worker2 got <<2>>; the chunk of worker2 has completed
\* while the chunks of worker1 are both in flight.
Witness_C22 ==
    /\ IsPartition /\ N = 1 /\ L = 3
    /\ hasId = <<TRUE, FALSE, TRUE>>
    /\ pe.pc = "join"
    /\ Stream(1) = <<1, 3>> /\ Stream(2) = <<2>>
    /\ pe.futures[2].fn = 2 /\ pe.futures[2].state = "ok"
    /\ pe.futures[1].state = "running" /\ pe.futures[3].state = "running"

\* C23: for every N >= 1, every batch buffer holds at most N items in every
\* reachable state: the buffer of every execute_query call (those made by
\* the workers of save_batch included), of execute_batch and both buffers of
\* partition_execute.  A buffer that has reached N items is flushed before
\* the next item is pulled: whenever a call is about to pull an item its
\* buffer holds fewer than N items, and a flush leaves the buffer empty.
Thm_C23_BufferBound ==
    N >= 1 =>
        /\ \A p \in DOMAIN q :
             /\ Len(q[p].buf) <= N
             /\ q[p].pc = "loop" => Len(q[p].buf) < N
             /\ q[p].pc = "begin" => q[p].buf # <<>>
             /\ q[p].pc \in {"commit", "done", "idle"} => q[p].buf = <<>>
        /\ Len(eb.buf) < N
        /\ eb.pc \in {"join", "done"} => eb.buf = <<>>
        /\ Len(pe.buf1) < N /\ Len(pe.buf2) < N
        /\ pe.pc \in {"join", "done"} => pe.buf1 = <<>> /\ pe.buf2 = <<>>

\* execute_query with N = 2 is flushing a full buffer after the fourth item
\* while a fifth item is still waiting in the input.
Witness_C23 ==
    /\ IsQuery /\ N = 2 /\ L = 5
    /\ Frame.pc = "begin" /\ Frame.site = "loop"
    /\ Frame.read = 4 /\ Frame.buf = <<3, 4>>

\* ---- order of the actions
IsSequential == op \in {"transaction_sequential", "try_transaction"}

\* C24: in transaction_sequential and try_transaction the actions are
\* started in list order, one per step of the loop: when action i is started
\* the actions 1..i-1 (and no others) have been started and each of them has
\* completed with its result or error recorded, the handle is open and back
\* with the engine, and the action has completed and handed the handle back
\* before anything else happens.  So no two actions ever hold or use the
\* handle at the same time, and the statements reach the handle in list
\* order.
Thm_C24_SequentialOrder ==
    [][(IsSequential /\ calls' # calls) =>
          LET i == Len(calls) + 1
          IN /\ calls = Iota(Len(calls))
             /\ calls' = Append(calls, i)
             /\ i <= nAct
             /\ Len(results) + Len(ActionErrors) = Len(calls)
             /\ txs[1].state = "Open"
             /\ Len(results') + Len(ActionErrors') = i
             /\ txs'[1].state = "Open"
             /\ txs'[1].log \in {txs[1].log, Append(txs[1].log, i)}
             /\ \A j, k \in DOMAIN txs'[1].log :
                  j < k => txs'[1].log[j] < txs'[1].log[k]]_vars

\* try_transaction ran its three actions in list order; the second failed,
\* the first and third executed their statements, in that order.
Witness_C24 ==
    /\ op = "try_transaction" /\ nAct = 3 /\ tpc = "done"
    /\ calls = <<1, 2, 3>>
    /\ results = <<1, 3>>
    /\ Began /\ txs[1].log = <<1, 3>>

\* ---- *_many and save_all
\* The call has entered the batched variant.
Delegated == q[Main].pc # "idle" \/ eb.pc # "idle"

\* C25: insert_many, update_many, delete_many_by_id and save_all behave
\* exactly like insert_batch, update_batch, delete_batch_by_id and
\* save_batch with N = 256: the batch size of such a call is 256 throughout,
\* and the step that enters the batched variant leaves the call in the very
\* state in which a direct call of that variant with N = 256 and the same
\* input starts (whole input unread, empty buffer, no worker, no
\* transaction, no error), from where both take the same steps: the same
\* queries in the same transactions and the same result.
Thm_C25_ManyIsBatch256 ==
    [][(op \in ManyOps) =>
         /\ N = 256 /\ N' = 256
         /\ input' = input /\ hasId' = hasId
         /\ ~Delegated =>
              /\ Delegated'
              /\ txs' = <<>> /\ produced' = <<>> /\ workers' = <<>>
              /\ eb' = IF op = "save_all" THEN [IdleBatch EXCEPT !.pc = "loop"]
                                          ELSE IdleBatch
              /\ q' = [p \in {Main} |->
                         IF op = "save_all" THEN IdleFrame ELSE NewFrame(input)]]_vars

\* insert_many over five items returned Ok after one transaction holding all
\* five statements, as insert_batch::<256> does.
Witness_C25 ==
    /\ op = "insert_many" /\ L = 5
    /\ Frame.pc = "done" /\ Frame.res.tag = "Ok"
    /\ Len(txs) = 1 /\ txs[1].state = "Committed"
    /\ txs[1].log = input

RECURSIVE LogsUpTo(_)
\* The statements executed through the first k transactions, in order.
LogsUpTo(k) == IF k = 0 THEN <<>> ELSE LogsUpTo(k - 1) \o txs[k].log

OpenTxs == {k \in DOMAIN txs : txs[k].state = "Open"}

\* C27: in execute_query the item queries are executed in input order (the
\* statements of all transactions, taken in the order the transactions were
\* begun, are a prefix of the input), the statements of the k-th transaction
\* are items of the k-th batch only, in order; a transaction exists only
\* when every transaction begun before it has committed, and at most one
\* transaction is open at any time.
Thm_C27_OneOpenTransaction ==
    IsQuery =>
        /\ Cardinality(OpenTxs) <= 1
        /\ \A k \in DOMAIN txs :
             /\ k < Len(txs) => txs[k].state = "Committed"
             /\ N >= 1 => IsPrefix(txs[k].log, Batch(k))
             /\ txs[k].state = "Open" => Frame.pc \in {"exec", "commit"} /\ Frame.cur = k
        /\ IsPrefix(LogsUpTo(Len(txs)), input)
        /\ Frame.pc = "begin" => OpenTxs = {}

\* Third batch of five items in batches of two under way: its transaction is
\* the only open one, the two before it are committed, and the statements
\* ran in input order.
Witness_C27 ==
    /\ IsQuery /\ N = 2 /\ L = 5
    /\ Len(txs) = 3
    /\ txs[1].state = "Committed" /\ txs[2].state = "Committed"
    /\ OpenTxs = {3}
    /\ LogsUpTo(3) = <<1, 2, 3, 4, 5>>

\* ---- execute_batch reads everything first
IsBatch == op \in {"save_batch", "save_all"}
Started == {w \in DOMAIN workers : workers[w].state # "created"}

\* C28: execute_batch pulls the whole input and creates the futures of all
\* chunk-workers before any worker future makes its first step: while the
\* input is being read no worker has been polled, no batched operation has
\* been started and no transaction begun; once a worker has made a step the
\* whole input has been read and handed out, the chunks of the workers being
\* the input in order.  So also a call that returns the error of a failing
\* chunk has read every input item and handed it to a worker.
Thm_C28_AllWorkersCreatedFirst ==
    IsBatch =>
        /\ eb.pc = "loop" =>
             /\ Started = {}
             /\ DOMAIN q = {Main}
             /\ txs = <<>>
        /\ (Started # {} \/ txs # <<>> \/ DOMAIN q # {Main}) =>
             /\ eb.pc \in {"join", "done"}
             /\ eb.read = L /\ eb.buf = <<>>
             /\ Flatten(workers) = input
        /\ (eb.pc = "done" /\ eb.res.tag = "Err") =>
             /\ eb.read = L
             /\ Flatten(workers) = input

\* The first of three chunks failed at its first statement and the call
\* returned that error; the items of the two later chunks had been read and
\* handed to workers all the same.
Witness_C28 ==
    /\ op = "save_batch" /\ N = 1 /\ L = 3
    /\ eb.pc = "done" /\ eb.res.tag = "Err"
    /\ eb.res.errs[1] = Error("query", 1)
    /\ Len(workers) = 3
    /\ workers[2].chunk = <<2>> /\ workers[3].chunk = <<3>>

\* ---- first error of a join
IsConcurrent == op = "transaction_concurrent"
FrameStep(p) == Pull(p) \/ Exhausted(p) \/ BeginBatch(p) \/ ExecItem(p) \/ CommitBatch(p)

\* What holds once a chunk-worker or a concurrent action has returned Err.
AfterFirstError ==
    /\ (IsBatch /\ produced # <<>>) =>
         /\ eb.pc = "done" /\ eb.res = Err(<<produced[1]>>)
         /\ Len(produced) = 1
         /\ \A r \in DOMAIN q \ {Main} : q[r].pc \in {"done", "dropped"}
         /\ \A k \in DOMAIN txs : txs[k].state # "Open"
         /\ \A r \in DOMAIN q : ~ENABLED FrameStep(r)
         /\ \A w \in DOMAIN workers : ~ENABLED WorkerStart(w)
    /\ (IsConcurrent /\ errors # <<>>) =>
         /\ \A i \in DOMAIN act : act[i] \in {"ok", "err", "dropped"}
         /\ \A i \in DOMAIN act : ~ENABLED TcStart(i) /\ ~ENABLED TcComplete(i)
         /\ txs[1].commit = 0 /\ txs[1].state # "Committed"

\* What the step of the error, and every step after it, does.
FirstErrorStep ==
    /\ (IsBatch /\ produced' # produced) =>
         \A k \in DOMAIN txs :
            txs[k].state = "Open" =>
               /\ txs'[k].state = "RolledBack"
               /\ txs'[k].log = txs[k].log
               /\ q'[txs[k].owner].pc = "dropped" => txs'[k].commit = 0
    /\ IsBatch =>
         \A k \in DOMAIN txs : txs[k].state = "RolledBack" => txs'[k] = txs[k]
    /\ (IsConcurrent /\ errors # <<>>) =>
         /\ act' = act /\ errors' = errors
         /\ txs'[1].log = txs[1].log /\ txs'[1].commit = 0

Thm_C30_ResultsInListOrder ==
    IsConcurrent =>
        /\ (tpc \in {"commit", "done"} /\ errors = <<>> /\ Began) =>
             /\ Len(results) = nAct
             /\ \A i \in 1..nAct : results[i] = i
        /\ (tpc = "done" /\ result.tag = "Ok") =>
             /\ Len(result.val) = nAct
             /\ \A i \in 1..nAct : result.val[i] = i

\* Three actions completed in the order 3, 1, 2 and the call returned the
\* values in the order 1, 2, 3.
Witness_C30 ==
    /\ IsConcurrent /\ nAct = 3 /\ tpc = "done"
    /\ result = Ok(<<1, 2, 3>>)
    /\ Began /\ txs[1].log = <<3, 1, 2>>

\* ---- failing commit, begin, rollback
IsStrategy == op \in Strategies \cup InTxOps
CommitError == Error("commit", 1)
CommitHasFailed == \E j \in DOMAIN produced : produced[j] = CommitError

\* C31: if the final commit fails after all actions succeeded, each strategy
\* (with_transaction, also under the *_in_transaction methods,
\* transaction_sequential, transaction_concurrent, try_transaction) returns
\* an error made of the commit's store error alone (for try_transaction a
\* list holding exactly that error) and no result of an action is returned;
\* the commit was attempted once, nothing was rolled back by a call and
\* nothing is committed.
Thm_C31_CommitFailure ==
    (IsStrategy /\ CommitHasFailed) =>
        /\ tpc = "done"
        /\ produced = <<CommitError>>
        /\ result = Err(<<CommitError>>)
        /\ result.val = <<>>
        /\ Began /\ txs[1].commit = 1 /\ txs[1].rollback = 0
        /\ txs[1].state # "Committed"
        /\ Len(txs[1].log) = nAct

\* try_transaction with two successful actions whose commit failed.
Witness_C31 ==
    /\ op = "try_transaction" /\ nAct = 2 /\ tpc = "done"
    /\ Began /\ txs[1].log = <<1, 2>>
    /\ results = <<1, 2>>
    /\ result = Err(<<CommitError>>)

BeginError == Error("begin", 1)
BeginHasFailed == \E j \in DOMAIN produced : produced[j] = BeginError

\* C32: if begin fails, no strategy invokes a callback or an action, no
\* statement is executed, no transaction exists on which commit or rollback
\* could be issued, and the call returns the begin error alone (for
\* try_transaction a list holding exactly that error).
Thm_C32_BeginFailure ==
    (IsStrategy /\ BeginHasFailed) =>
        /\ tpc = "done"
        /\ produced = <<BeginError>>
        /\ result = Err(<<BeginError>>)
        /\ txs = <<>>
        /\ calls = <<>>
        /\ results = <<>> /\ errors = <<>>
        /\ single.stmts = <<>>
        /\ leaked = {}

\* transaction_concurrent over three actions whose begin failed.
Witness_C32 ==
    /\ op = "transaction_concurrent" /\ nAct = 3 /\ tpc = "done"
    /\ result = Err(<<BeginError>>)
    /\ calls = <<>> /\ txs = <<>>

RollbackError == Error("rollback", 1)
RollbackHasFailed == \E j \in DOMAIN produced : produced[j] = RollbackError
WorkErrors == SelectSeq(produced, LAMBDA e : e.src \in {"action", "query"})

\* C33: when the guarded work fails and the rollback fails too,
\* with_transaction (also under the *_in_transaction methods) and
\* transaction_concurrent return the rollback's store error alone, the
\* callback's / action's error being lost, whereas transaction_sequential and
\* try_transaction return the error(s) of the actions and never the
\* rollback's error.  In all four the rollback was called once and commit
\* never.
Thm_C33_RollbackFailure ==
    (IsStrategy /\ RollbackHasFailed) =>
        /\ tpc = "done"
        /\ Began /\ txs[1].rollback = 1 /\ txs[1].commit = 0
        /\ WorkErrors # <<>>
        /\ produced = WorkErrors \o <<RollbackError>>
        /\ op \in WtOps \cup {"transaction_concurrent"} =>
             /\ result = Err(<<RollbackError>>)
             /\ Len(WorkErrors) = 1
        /\ op = "transaction_sequential" =>
             /\ result = Err(WorkErrors)
             /\ Len(WorkErrors) = 1
        /\ op = "try_transaction" => result = Err(WorkErrors)

\* transaction_concurrent: action 2 failed, the rollback failed, and the call
\* returned the rollback's error only.
Witness_C33 ==
    /\ op = "transaction_concurrent" /\ tpc = "done"
    /\ produced = <<Error("action", 2), RollbackError>>
    /\ result = Err(<<RollbackError>>)

\* ---- delete_by_filter_in_transaction, delete_by_values_in_transaction
RejectionError == Error("Repository", 0)

\* C34: delete_by_filter_in_transaction called with a filter that should not
\* be applied begins a transaction, builds and issues no statement inside
\* it, calls rollback on it and never commit, and returns the
\* filter-rejection error (the rollback's error in its place when the
\* rollback fails too).
Thm_C34_RejectedFilterInTransaction ==
    (op = "delete_by_filter_in_transaction" /\ ~ShouldApply(fl.filter)) =>
        /\ single.built = 0 /\ single.stmts = <<>> /\ fl.out = <<>>
        /\ \A k \in DOMAIN txs : txs[k].log = <<>> /\ txs[k].commit = 0
                                  /\ txs[k].state # "Committed"
        /\ Len(txs) <= 1
        /\ tpc = "finish" => ret = Err(<<RejectionError>>)
        /\ (tpc = "done" /\ Began) =>
             /\ txs[1].rollback = 1
             /\ txs[1].state = "RolledBack"
             /\ \/ result = Err(<<RejectionError>>) /\ produced = <<RejectionError>>
                \/ result = Err(<<RollbackError>>)
                     /\ produced = <<RejectionError, RollbackError>>

\* And of two operator filters without a value: the transaction was begun
\* and rolled back, nothing was executed, the rejection was returned.
Witness_C34 ==
    /\ op = "delete_by_filter_in_transaction" /\ tpc = "done"
    /\ fl.filter = And(Operator(FALSE), Operator(FALSE))
    /\ Began /\ txs[1].state = "RolledBack" /\ txs[1].rollback = 1
    /\ txs[1].log = <<>>
    /\ result = Err(<<RejectionError>>)

\* C35: delete_by_values_in_transaction called with an empty sequence of
\* values builds and executes nothing, commits nothing and returns an error
\* (the IN filter over no values reports that it should not be applied);
\* called with a non-empty sequence it begins one transaction and, once
\* that has begun, builds and executes exactly one delete statement in it,
\* whose IN list binds every value, committing when the statement succeeded.
Thm_C35_DeleteByValues ==
    (op = "delete_by_values_in_transaction" /\ tpc # "idle") =>
        /\ fl.filter = InValues(L)
        /\ Len(txs) <= 1
        /\ L = 0 =>
             /\ single.built = 0 /\ single.stmts = <<>> /\ fl.out = <<>>
             /\ \A k \in DOMAIN txs : txs[k].log = <<>> /\ txs[k].commit = 0
             /\ tpc = "finish" => ret = Err(<<RejectionError>>)
             /\ tpc = "done" => result.tag = "Err"
        /\ L > 0 =>
             /\ Len(single.stmts) <= 1
             /\ produced # <<>> => produced[1] # RejectionError
             /\ (tpc \in {"finish", "done"} /\ Began) =>
                  /\ single.built = 1 /\ single.stmts = <<"delete">>
                  /\ fl.out = <<"col", " IN (">> \o Binds(L) \o <<")">>
                  /\ Len(fl.out) = 2 * L + 2
             /\ (tpc = "done" /\ Began) =>
                  /\ txs[1].commit + txs[1].rollback = 1
                  /\ ret.tag = "Ok" => txs[1].commit = 1 /\ txs[1].log = <<1>>
                  /\ ret.tag = "Err" => txs[1].rollback = 1 /\ txs[1].log = <<>>

\* No values: the transaction was begun and rolled back and the rejection
\* returned, nothing having been built or executed.
Witness_C35 ==
    /\ op = "delete_by_values_in_transaction" /\ tpc = "done" /\ L = 0
    /\ Began /\ txs[1].state = "RolledBack"
    /\ single.stmts = <<>>
    /\ result = Err(<<RejectionError>>)

\* ---- the two transactions of a chunk
\* The transactions begun by frame p.
TxsOf(p) == {k \in DOMAIN txs : txs[k].owner = p}

\* Every transaction of save_batch belongs to one batched operation of one
\* chunk and holds statements of that operation's kind only.
SeparateTransactions ==
    IsBatch =>
        \A k \in DOMAIN txs :
            /\ txs[k].owner \in DOMAIN q \ {Main}
            /\ txs[k].owner \in UpdFrames => \A j \in DOMAIN txs[k].log : hasId[txs[k].log[j]]
            /\ txs[k].owner \in InsFrames => \A j \in DOMAIN txs[k].log : ~hasId[txs[k].log[j]]

\* A commit changes the transaction it is called on and no other.
CommitsAlone ==
    IsBatch =>
        \A k \in DOMAIN txs :
            (txs[k].state # "Committed" /\ txs'[k].state = "Committed") =>
                \A j \in DOMAIN txs \ {k} : txs'[j] = txs[j]

Thm_C37_TransactionCount ==
    (IsSave /\ N >= 1 /\ L > 0) =>
        /\ Len(txs) <= 2 * CeilDiv(L, N)
        /\ \A k \in DOMAIN txs : Len(txs[k].log) <= N
        /\ \A p \in DOMAIN q \ {Main} : Cardinality(TxsOf(p)) <= 1
        /\ (eb.pc = "done" /\ eb.res.tag = "Ok") =>
             /\ Len(workers) = CeilDiv(L, N)
             /\ \A w \in DOMAIN workers :
                  /\ Cardinality(TxsOf(UpdFrame(w))) =
                       (IF SomeId(workers[w].chunk) THEN 1 ELSE 0)
                  /\ Cardinality(TxsOf(InsFrame(w))) =
                       (IF SomeNoId(workers[w].chunk) THEN 1 ELSE 0)
             /\ Len(txs) = Cardinality(DOMAIN q \ {Main})
             /\ Len(txs) >= CeilDiv(L, N)
             /\ \A k \in DOMAIN txs :
                  /\ txs[k].state = "Committed"
                  /\ Len(txs[k].log) >= 1

\* Three models in chunks of two, the first chunk mixed: three transactions,
\* between ceil(3/2) = 2 and 4, all committed.
Witness_C37 ==
    /\ IsSave /\ N = 2 /\ L = 3 /\ hasId = <<TRUE, FALSE, FALSE>>
    /\ eb.pc = "done" /\ eb.res.tag = "Ok"
    /\ Len(txs) = 3

\* ---- batch size 0
\* C38: with N = 0 and L > 0 the buffer is never flushed while the input is
\* read (`buf.len() == 0` is never true after a push).  execute_query begins
\* its one transaction only after the input is exhausted and executes the
\* items in it, in order, all L of them committed together when no store
\* operation fails; execute_batch creates no worker while reading and then
\* exactly one, invoked with all L items.
Thm_C38_BatchSizeZero ==
    (N = 0 /\ L > 0) =>
        /\ IsQuery =>
             /\ Frame.pc = "loop" => txs = <<>> /\ Frame.buf = SubSeq(input, 1, Frame.read)
             /\ Len(txs) <= 1
             /\ txs # <<>> =>
                  /\ Frame.read = L
                  /\ IsPrefix(txs[1].log, input)
                  /\ txs[1].state = "Committed" => txs[1].log = input
             /\ (Frame.pc = "done" /\ Frame.res.tag = "Ok") =>
                  /\ Len(txs) = 1
                  /\ txs[1].log = input /\ txs[1].state = "Committed"
        /\ IsSave =>
             /\ eb.pc = "loop" => workers = <<>> /\ eb.buf = SubSeq(input, 1, eb.read)
             /\ eb.pc \in {"join", "done"} =>
                  /\ Len(workers) = 1
                  /\ workers[1].chunk = input

\* execute_query::<0> over five items: one transaction holds all five.
Witness_C38 ==
    /\ IsQuery /\ N = 0 /\ L = 5
    /\ Frame.pc = "done" /\ Frame.res.tag = "Ok"
    /\ Len(txs) = 1 /\ txs[1].log = <<1, 2, 3, 4, 5>> /\ txs[1].state = "Committed"

\* ---- filter combinators
HasFilter == op \in DeleteOps \cup {"delete_by_filter_in_transaction"}

\* The filter itself and every filter it is made of.
RECURSIVE Sub(_)
Sub(f) == {f} \cup (CASE f.k = "not" -> Sub(f.inner)
                      [] f.k \in {"and", "or"} -> Sub(f.left) \cup Sub(f.right)
                      [] OTHER -> {})

\* Number of operator filters in f that have a value.
RECURSIVE Applicable(_)
Applicable(f) == CASE f.k = "op" -> (IF f.applies THEN 1 ELSE 0)
                   [] f.k = "not" -> Applicable(f.inner)
                   [] f.k \in {"and", "or"} -> Applicable(f.left) + Applicable(f.right)

IsDelimiter(t) == t \in {" AND ", " OR "}
Count(s, Test(_)) == Cardinality({i \in DOMAIN s : Test(s[i])})

\* C39: for And(l, r) and Or(l, r), should_apply_filter() is true exactly
\* when l or r should apply; apply_filter pushes both sides joined by the
\* delimiter when both should apply, the one applicable side and no delimiter
\* when exactly one does, and nothing when neither does.  Not(x) should
\* apply exactly when x does.  So a filter applies exactly when one of its
\* operator filters has a value, what it pushes holds every such operator
\* once with one delimiter between two of them (none leading, trailing or
\* doubled), and a combination made only of filters that do not apply pushes
\* nothing and is rejected by delete_by_filter (also inside a transaction)
\* before a statement is built.
Thm_C39_Combinators ==
    HasFilter =>
        /\ \A g \in Sub(fl.filter) :
             LET out == Emit(g)
             IN /\ g.k \in {"and", "or"} =>
                     LET a == ShouldApply(g.left)
                         b == ShouldApply(g.right)
                         d == IF g.k = "and" THEN " AND " ELSE " OR "
                     IN /\ ShouldApply(g) <=> (a \/ b)
                        /\ (a /\ b) => out = Emit(g.left) \o <<d>> \o Emit(g.right)
                        /\ (a /\ ~b) => out = Emit(g.left)
                        /\ (~a /\ b) => out = Emit(g.right)
                        /\ (~a /\ ~b) => out = <<>>
                /\ g.k = "not" =>
                     /\ ShouldApply(g) <=> ShouldApply(g.inner)
                     /\ out = IF ShouldApply(g.inner) THEN <<"NOT ">> \o Emit(g.inner)
                                                      ELSE <<>>
                /\ ShouldApply(g) <=> Applicable(g) > 0
                /\ out = <<>> <=> ~ShouldApply(g)
                /\ Count(out, LAMBDA t : t = "col") = Applicable(g)
                /\ ShouldApply(g) =>
                     /\ Count(out, IsDelimiter) = Applicable(g) - 1
                     /\ ~IsDelimiter(out[1]) /\ ~IsDelimiter(out[Len(out)])
                     /\ \A i \in 1..(Len(out) - 1) :
                          ~(IsDelimiter(out[i]) /\ IsDelimiter(out[i + 1]))
        /\ Applicable(fl.filter) = 0 =>
             /\ single.built = 0 /\ single.stmts = <<>> /\ fl.out = <<>>
             /\ \A j \in DOMAIN produced :
                  produced[j].src \in {"Repository", "begin", "rollback"}
             /\ (op \in DeleteOps /\ single.pc = "done") =>
                  single.res = Err(<<RejectionError>>)
             /\ (op \notin DeleteOps /\ tpc = "done") => result.tag = "Err"
        /\ single.built = 1 => fl.out = Emit(fl.filter) /\ fl.out # <<>>

\* delete_by_filter over And(x, Not(y)) where only x has a value: the
\* statement was built with x alone, no delimiter, and executed.
Witness_C39 ==
    /\ op = "delete_by_filter" /\ single.pc = "done"
    /\ fl.filter = And(Operator(TRUE), Not(Operator(FALSE)))
    /\ fl.out = <<"col", " = ", "?">>
    /\ single.stmts = <<"delete">>

====
